---- MODULE Spec2Model ----
(***************************************************************************)
(* Model of the cores of the reaper toolkit:                               *)
(*   - AuditLogger   (src/src/utils/logger.py): the audit/rollback journal *)
(*   - SuspectFilter (src/src/analyzers/suspect_filter.py): classification *)
(*   - AIResearcher  (src/src/analyzers/ai_researcher.py): resolution of   *)
(*     suspects against the Knowledge Base, and aggregation                *)
(* Each core has its own specification (JournalSpec, FilterSpec,           *)
(* ResearchSpec); the variables of the other cores are left unchanged.     *)
(* WritersSpec runs log_change statement by statement in two threads.      *)
(***************************************************************************)
EXTENDS Integers, Sequences, FiniteSets, TLC

VARIABLES
    \* ---- AuditLogger --------------------------------------------------
    changes,            \* self.changes: list of change dicts
    rollback_commands,  \* self.rollback_commands: list of strings
    log_file,           \* content of <session>_execution.log, a list of blocks
    rollback_file,      \* content of <session>_rollback.ps1
    yaml_log,           \* content of <session>_changes.yaml
    now,                \* datetime.now(), as a logical clock
    lastOp,             \* the last AuditLogger method called
    ret,                \* what that call returned (<<>> is None)
    raised,             \* that call raised IOError
    io_failed,          \* some log_change call of the session has raised
    finalized,          \* number of finalize() calls so far
    final_summary,      \* <<summary>> returned by the latest finalize()
    recorded_since,     \* a log_change call happened after the latest finalize()
    \* ---- SuspectFilter ------------------------------------------------
    settings,           \* self.settings (settings.yaml)
    known_processes,    \* self.known_processes (known_processes.yaml), in dict order
    manifest,           \* self.manifest (manifest.yaml)
    patterns,           \* self.patterns
    critical_keep,      \* self.critical_keep
    kind,               \* which filter_* method ran ("none" before any)
    given,              \* the list handed to it
    filtered,           \* the list it returned
    \* ---- AIResearcher (and the construction of both analyzers) ---------
    kb_source,          \* what config/known_processes.yaml is on disk
    classifier,         \* SuspectFilter(): "none" before, then "ready" or "failed"
    researcher,         \* AIResearcher(): "none" before, then "ready"
    researcher_kb,      \* AIResearcher.known_processes, as loaded
    suspects,           \* the four lists handed to research_all_suspects
    results,            \* <<dict>> it returned (<<>> before, or when it raised)
    recommendations,    \* <<dict>> generate_recommendations returned
    r_op,               \* the last AIResearcher method called
    r_raised,           \* the exception that call raised ("" when it returned)
    \* ---- threads calling AuditLogger.log_change on one journal -----------
    discipline,         \* how the callers use it: "serialized" or "free"
    owner,              \* the thread inside the callers' critical section ("" if none)
    pc,                 \* per thread: the statement of log_change it is at
    call                \* per thread: <<arguments and time stamp>> of its call

journalVars == <<changes, rollback_commands, log_file, rollback_file, yaml_log,
                 now, lastOp, ret, raised, io_failed, finalized, final_summary,
                 recorded_since>>
filterVars == <<settings, known_processes, manifest, patterns, critical_keep,
                kind, given, filtered>>
researchVars == <<kb_source, classifier, researcher, researcher_kb, suspects,
                  results, recommendations, r_op, r_raised>>
writerVars == <<discipline, owner, pc, call>>
vars == <<journalVars, filterVars, researchVars, writerVars>>

\* ------------------------------------------------------------------ bounds
\* Calls of one journal session that read the clock (every method but get_summary).
MaxCalls == 3
\* Records in one list handed to a filter_* method.
MaxBatch == 1
\* Records in the four lists handed to one research_all_suspects call, together.
MaxRecords == 2

\* ----------------------------------------------------------------- helpers
\* Python's reversed(seq)
Reverse(s) == [i \in 1..Len(s) |-> s[Len(s) + 1 - i]]

IsPrefix(s, t) == Len(s) <= Len(t) /\ SubSeq(t, 1, Len(s)) = s

\* ============================================================ AuditLogger
\* self.session_id: the start time, formatted (one session, one id)
SessionId == "2026-01-01_00-00-00"
LogPath == "data/audit_logs/2026-01-01_00-00-00_execution.log"
RollbackPath == "data/audit_logs/2026-01-01_00-00-00_rollback.ps1"

\* Python's None, and Some(x) for a value that is present
None == <<>>
Some(x) == <<x>>

\* The mutations an external executor reports: action, target, target_type
\* and the PowerShell command that undoes it.
Mutations ==
    { [action |-> "disable_service", target |-> "Foo", target_type |-> "service",
       rollback |-> "Set-Service Foo -StartupType Automatic"],
      [action |-> "remove_startup", target |-> "Bar", target_type |-> "startup",
       rollback |-> "Set-ItemProperty Run Bar"] }

\* The argument tuples of log_change: any mutation, with or without a rollback
\* command, reported as succeeded or as failed (then with an error text).
ChangeArgs ==
    UNION { { [action |-> m.action, target |-> m.target, target_type |-> m.target_type,
               before_state |-> "Automatic", after_state |-> "Disabled",
               rollback_command |-> c, success |-> s,
               error |-> IF s THEN None ELSE Some("Access denied")]
              : c \in {"", m.rollback}, s \in BOOLEAN }
            : m \in Mutations }

\* The argument tuples of log_dry_run.
DryRunArgs ==
    { [action |-> m.action, target |-> m.target, target_type |-> m.target_type,
       current_state |-> "Automatic", planned_state |-> "Disabled"]
      : m \in Mutations }

\* The change dict built at logger.py:65-75.
ChangeEntry(a, timestamp) ==
    [timestamp |-> timestamp, action |-> a.action, target |-> a.target,
     target_type |-> a.target_type, before_state |-> a.before_state,
     after_state |-> a.after_state, rollback_command |-> a.rollback_command,
     success |-> a.success, error |-> a.error]

\* The block log_change writes to the log file (logger.py:80-89); the Error
\* line is written only for a truthy error.
ChangeBlock(a, timestamp) ==
    [block |-> "change", timestamp |-> timestamp,
     status |-> IF a.success THEN "SUCCESS" ELSE "FAILED",
     action |-> a.action, target |-> a.target, target_type |-> a.target_type,
     before |-> a.before_state, after |-> a.after_state,
     error |-> IF a.error # None /\ a.error # Some("") THEN a.error ELSE None,
     rollback |-> a.rollback_command]

\* f"# Rollback: {action} - {target}" (logger.py:93)
RollbackLabel(action, target) == "# Rollback: " \o action \o " - " \o target

\* RollbackLines with the success test dropped (if rollback_command:)
RollbackLinesAnyOutcome(a) ==
    IF a.rollback_command # ""
    THEN <<RollbackLabel(a.action, a.target), a.rollback_command, "">>
    ELSE <<>>

\* The three lines log_change appends for a successful change that has a
\* rollback command (logger.py:92-95); nothing otherwise.
RollbackLines(a) ==
    IF a.success /\ a.rollback_command # ""
    THEN <<RollbackLabel(a.action, a.target), a.rollback_command, "">>
    ELSE <<>>

IsSuccess(c) == c.success
IsFailed(c) == ~c.success

\* by_type of get_summary (logger.py:177-180): successful changes per target_type
ByType(successful) ==
    [t \in {successful[i].target_type : i \in 1..Len(successful)} |->
        Cardinality({i \in 1..Len(successful) : successful[i].target_type = t})]

\* AuditLogger.get_summary, as a function of self.changes
get_summary(chs) ==
    [session_id |-> SessionId,
     total_changes |-> Len(chs),
     successful |-> Len(SelectSeq(chs, IsSuccess)),
     failed |-> Len(SelectSeq(chs, IsFailed)),
     by_type |-> ByType(SelectSeq(chs, IsSuccess)),
     log_file |-> LogPath,
     rollback_file |-> RollbackPath]

\* RollbackScript with the lines written in recording order (no reversed())
RollbackScriptForward(generated, cmds) ==
    [session |-> SessionId, generated |-> generated, lines |-> cmds]

\* The rollback script save_rollback_script writes: the fixed header, then the
\* lines of self.rollback_commands in reversed order, then the trailer.
RollbackScript(generated, cmds) ==
    [session |-> SessionId, generated |-> generated, lines |-> Reverse(cmds)]

\* The summary block finalize appends to the log file (logger.py:204-210)
SummaryBlock(completed, summary) ==
    [block |-> "summary", completed |-> completed,
     total_changes |-> summary.total_changes, successful |-> summary.successful,
     failed |-> summary.failed, rollback_file |-> summary.rollback_file]

\* AuditLogger.__init__ and _write_header: a fresh journal
JournalFresh ==
    /\ changes = <<>>
    /\ rollback_commands = <<>>
    /\ log_file = <<[block |-> "header", session |-> SessionId, started |-> 0]>>
    /\ rollback_file = None
    /\ yaml_log = None
    /\ now = 0
    /\ lastOp = "__init__"
    /\ ret = None
    /\ raised = FALSE
    /\ io_failed = FALSE
    /\ finalized = 0
    /\ final_summary = None
    /\ recorded_since = FALSE

\* LogChangeDone with the entry put in front (self.changes.insert(0, change))
LogChangePrepends(a) ==
    /\ now < MaxCalls
    /\ now' = now + 1
    /\ changes' = <<ChangeEntry(a, now + 1)>> \o changes
    /\ log_file' = Append(log_file, ChangeBlock(a, now + 1))
    /\ rollback_commands' = rollback_commands \o RollbackLines(a)
    /\ lastOp' = "log_change"
    /\ ret' = None
    /\ raised' = FALSE
    /\ recorded_since' = TRUE
    /\ UNCHANGED <<rollback_file, yaml_log, io_failed, finalized, final_summary>>

\* log_change(a) when the log file can be opened and written
LogChangeDone(a) ==
    /\ now < MaxCalls
    /\ now' = now + 1
    /\ changes' = Append(changes, ChangeEntry(a, now + 1))
    /\ log_file' = Append(log_file, ChangeBlock(a, now + 1))
    /\ rollback_commands' = rollback_commands \o RollbackLines(a)
    /\ lastOp' = "log_change"
    /\ ret' = None
    /\ raised' = FALSE
    /\ recorded_since' = TRUE
    /\ UNCHANGED <<rollback_file, yaml_log, io_failed, finalized, final_summary>>

\* LogChangeRaises with the IOError caught and dropped (try: ... except IOError: pass)
LogChangeSwallows(a) ==
    /\ now < MaxCalls
    /\ now' = now + 1
    /\ changes' = Append(changes, ChangeEntry(a, now + 1))
    /\ lastOp' = "log_change"
    /\ ret' = None
    /\ raised' = FALSE
    /\ io_failed' = TRUE
    /\ recorded_since' = TRUE
    /\ UNCHANGED <<log_file, rollback_commands, rollback_file, yaml_log,
                   finalized, final_summary>>

\* log_change(a) when open() of the log file raises (logger.py:80): the entry
\* was appended at line 77, lines 80-95 are not executed.
LogChangeRaises(a) ==
    /\ now < MaxCalls
    /\ now' = now + 1
    /\ changes' = Append(changes, ChangeEntry(a, now + 1))
    /\ lastOp' = "log_change"
    /\ ret' = None
    /\ raised' = TRUE
    /\ io_failed' = TRUE
    /\ recorded_since' = TRUE
    /\ UNCHANGED <<log_file, rollback_commands, rollback_file, yaml_log,
                   finalized, final_summary>>

log_change ==
    \E a \in ChangeArgs :
        (LogChangeDone(a) \/ LogChangeRaises(a)) /\ UNCHANGED <<filterVars, researchVars, writerVars>>

\* log_dry_run that also queues a rollback label for the planned change
LogDryRunQueuesRollback ==
    /\ \E a \in DryRunArgs :
          /\ log_file' = Append(log_file,
                [block |-> "dry_run", timestamp |-> now + 1, action |-> a.action,
                 target |-> a.target, target_type |-> a.target_type,
                 current |-> a.current_state, planned |-> a.planned_state])
          /\ rollback_commands' =
                Append(rollback_commands, RollbackLabel(a.action, a.target))
    /\ now < MaxCalls
    /\ now' = now + 1
    /\ lastOp' = "log_dry_run"
    /\ ret' = None
    /\ raised' = FALSE
    /\ UNCHANGED <<changes, rollback_file, yaml_log, io_failed,
                   finalized, final_summary, recorded_since>>
    /\ UNCHANGED <<filterVars, researchVars, writerVars>>

log_dry_run ==
    /\ \E a \in DryRunArgs :
          log_file' = Append(log_file,
              [block |-> "dry_run", timestamp |-> now + 1, action |-> a.action,
               target |-> a.target, target_type |-> a.target_type,
               current |-> a.current_state, planned |-> a.planned_state])
    /\ now < MaxCalls
    /\ now' = now + 1
    /\ lastOp' = "log_dry_run"
    /\ ret' = None
    /\ raised' = FALSE
    /\ UNCHANGED <<changes, rollback_commands, rollback_file, yaml_log, io_failed,
                   finalized, final_summary, recorded_since>>
    /\ UNCHANGED <<filterVars, researchVars, writerVars>>

log_message ==
    /\ now < MaxCalls
    /\ now' = now + 1
    /\ log_file' = Append(log_file,
          [block |-> "message", timestamp |-> now + 1, level |-> "INFO",
           message |-> "Starting session"])
    /\ lastOp' = "log_message"
    /\ ret' = None
    /\ raised' = FALSE
    /\ UNCHANGED <<changes, rollback_commands, rollback_file, yaml_log, io_failed,
                   finalized, final_summary, recorded_since>>
    /\ UNCHANGED <<filterVars, researchVars, writerVars>>

save_rollback_script ==
    /\ now < MaxCalls
    /\ now' = now + 1
    /\ rollback_file' = Some(RollbackScript(now + 1, rollback_commands))
    /\ lastOp' = "save_rollback_script"
    /\ ret' = Some(RollbackPath)
    /\ raised' = FALSE
    /\ UNCHANGED <<changes, rollback_commands, log_file, yaml_log, io_failed,
                   finalized, final_summary, recorded_since>>
    /\ UNCHANGED <<filterVars, researchVars, writerVars>>

GetSummary ==
    /\ lastOp' = "get_summary"
    /\ ret' = Some(get_summary(changes))
    /\ raised' = FALSE
    /\ UNCHANGED <<changes, rollback_commands, log_file, rollback_file, yaml_log,
                   now, io_failed, finalized, final_summary, recorded_since>>
    /\ UNCHANGED <<filterVars, researchVars, writerVars>>

\* finalize that journals its own run as one more change
FinalizeLogsItself ==
    /\ now < MaxCalls
    /\ now' = now + 1
    /\ rollback_file' = Some(RollbackScript(now + 1, rollback_commands))
    /\ log_file' = Append(log_file, SummaryBlock(now + 1, get_summary(changes)))
    /\ yaml_log' = Some([session |-> get_summary(changes), changes |-> changes])
    /\ changes' = Append(changes,
          [timestamp |-> now + 1, action |-> "finalize", target |-> SessionId,
           target_type |-> "session", before_state |-> "open", after_state |-> "closed",
           rollback_command |-> "", success |-> TRUE, error |-> None])
    /\ lastOp' = "finalize"
    /\ ret' = Some(get_summary(changes))
    /\ raised' = FALSE
    /\ finalized' = finalized + 1
    /\ final_summary' = Some(get_summary(changes))
    /\ recorded_since' = FALSE
    /\ UNCHANGED <<rollback_commands, io_failed>>
    /\ UNCHANGED <<filterVars, researchVars, writerVars>>

finalize ==
    /\ now < MaxCalls
    /\ now' = now + 1
    /\ rollback_file' = Some(RollbackScript(now + 1, rollback_commands))
    /\ log_file' = Append(log_file, SummaryBlock(now + 1, get_summary(changes)))
    /\ yaml_log' = Some([session |-> get_summary(changes), changes |-> changes])
    /\ lastOp' = "finalize"
    /\ ret' = Some(get_summary(changes))
    /\ raised' = FALSE
    /\ finalized' = finalized + 1
    /\ final_summary' = Some(get_summary(changes))
    /\ recorded_since' = FALSE
    /\ UNCHANGED <<changes, rollback_commands, io_failed>>
    /\ UNCHANGED <<filterVars, researchVars, writerVars>>

JournalNext ==
    \/ log_change
    \/ log_dry_run
    \/ log_message
    \/ save_rollback_script
    \/ GetSummary
    \/ finalize

\* ------------------------------------------- log_change, thread by thread
\* Two threads record on one AuditLogger.  log_change takes no lock: a thread
\* can be preempted between its statements (the append at line 77, the file
\* write at 80-89, the three appends at 93-95).  Serialization is up to the
\* callers: under the discipline "serialized" a thread enters log_change only
\* when no other thread is inside, under "free" at any time.  The log file
\* can be written throughout.
Writers == {"t1", "t2"}

WritersStart(disciplines) ==
    /\ discipline \in disciplines
    /\ owner = ""
    /\ pc = [w \in Writers |-> "idle"]
    /\ call = [w \in Writers |-> None]

\* A journal used by one thread only.
WritersIdle == WritersStart({"serialized"})

\* leaving log_change: the thread gives up the critical section, if it has one
Leave(w) == owner' = IF owner = w THEN "" ELSE owner

\* logger.py:63-77: the time stamp, the change dict, self.changes.append(change)
LogChangeAppendEntry(w) ==
    /\ pc[w] = "idle"
    /\ now < MaxCalls
    /\ discipline = "serialized" => owner = ""
    /\ owner' = IF discipline = "serialized" THEN w ELSE owner
    /\ \E a \in ChangeArgs :
          /\ changes' = Append(changes, ChangeEntry(a, now + 1))
          /\ call' = [call EXCEPT ![w] = Some([args |-> a, timestamp |-> now + 1])]
    /\ now' = now + 1
    /\ pc' = [pc EXCEPT ![w] = "write"]
    /\ UNCHANGED <<log_file, rollback_commands>>

\* logger.py:80-92: the block is written to the log file; then
\* "if success and rollback_command:"
LogChangeWriteBlock(w) ==
    /\ pc[w] = "write"
    /\ LET a == call[w][1].args
       IN  /\ log_file' = Append(log_file, ChangeBlock(a, call[w][1].timestamp))
           /\ IF a.success /\ a.rollback_command # ""
              THEN /\ pc' = [pc EXCEPT ![w] = "label"]
                   /\ UNCHANGED <<owner, call>>
              ELSE /\ pc' = [pc EXCEPT ![w] = "idle"]
                   /\ call' = [call EXCEPT ![w] = None]
                   /\ Leave(w)
    /\ UNCHANGED <<changes, rollback_commands, now>>

\* logger.py:93
LogChangeQueueLabel(w) ==
    /\ pc[w] = "label"
    /\ rollback_commands' = Append(rollback_commands,
          RollbackLabel(call[w][1].args.action, call[w][1].args.target))
    /\ pc' = [pc EXCEPT ![w] = "command"]
    /\ UNCHANGED <<changes, log_file, now, owner, call>>

\* LogChangeQueueCommand with self.rollback_commands.insert(0, rollback_command)
LogChangeQueueCommandFront(w) ==
    /\ pc[w] = "command"
    /\ rollback_commands' = <<call[w][1].args.rollback_command>> \o rollback_commands
    /\ pc' = [pc EXCEPT ![w] = "blank"]
    /\ UNCHANGED <<changes, log_file, now, owner, call>>

\* logger.py:94
LogChangeQueueCommand(w) ==
    /\ pc[w] = "command"
    /\ rollback_commands' = Append(rollback_commands, call[w][1].args.rollback_command)
    /\ pc' = [pc EXCEPT ![w] = "blank"]
    /\ UNCHANGED <<changes, log_file, now, owner, call>>

\* logger.py:95, and the return
LogChangeQueueBlank(w) ==
    /\ pc[w] = "blank"
    /\ rollback_commands' = Append(rollback_commands, "")
    /\ pc' = [pc EXCEPT ![w] = "idle"]
    /\ call' = [call EXCEPT ![w] = None]
    /\ Leave(w)
    /\ UNCHANGED <<changes, log_file, now>>

\* what no statement of log_change touches
WritersFrame ==
    /\ UNCHANGED <<rollback_file, yaml_log, lastOp, ret, raised, io_failed,
                   finalized, final_summary, recorded_since, discipline>>
    /\ UNCHANGED <<filterVars, researchVars>>

WritersNext ==
    \E w \in Writers :
        \/ LogChangeAppendEntry(w) /\ WritersFrame
        \/ LogChangeWriteBlock(w) /\ WritersFrame
        \/ LogChangeQueueLabel(w) /\ WritersFrame
        \/ LogChangeQueueCommand(w) /\ WritersFrame
        \/ LogChangeQueueBlank(w) /\ WritersFrame

\* ========================================================== SuspectFilter
\* A text is a sequence of words; the words are the units of matching, so
\* "RazerChroma" is <<"Razer", "Chroma">>.  str.lower() works word by word.
LowerCase ==
    "Explorer" :> "explorer" @@ "EXPLORER" :> "explorer" @@ "Razer" :> "razer" @@
    "Chroma" :> "chroma" @@ "Steam" :> "steam" @@ "Notepad" :> "notepad" @@
    "Microsoft" :> "microsoft" @@ "Corporation" :> "corporation" @@
    "Inc." :> "inc." @@ "C:" :> "c:" @@ "None" :> "none" @@ "XClient" :> "xclient"

Lower(w) == IF w \in DOMAIN LowerCase THEN LowerCase[w] ELSE w

\* str.lower()
LowerText(t) == [i \in 1..Len(t) |-> Lower(t[i])]

\* the characters of a text, as one string
RECURSIVE Str(_)
Str(t) == IF t = <<>> THEN "" ELSE Head(t) \o Str(Tail(t))

\* f"{value}" of an optional text: None prints as "None"
Fmt(v) == IF v = None THEN <<"None">> ELSE v[1]

\* Python truthiness of an optional text
Truthy(v) == v # None /\ v[1] # <<>>

Sp == <<" ">>

\* A rule of the catalogue: the source string and what re.compile makes of it.
\*   word:    a           occurs in the text
\*   gap:     a.*b        a occurs, b occurs later
\*   nolater: a(?!.*b)    a occurs with no b later
\* icase is the (?i) flag; valid is FALSE when re.compile raises re.error.
Rule(src, form, a, b, icase) ==
    [pattern |-> src, form |-> form, a |-> a, b |-> b, icase |-> icase, valid |-> TRUE]

DEFAULT_PATTERNS ==
    << Rule("(?i)chroma", "word", "chroma", "", TRUE),
       Rule("(?i)synapse", "word", "synapse", "", TRUE),
       Rule("(?i)icue", "word", "icue", "", TRUE),
       Rule("(?i)corsair", "word", "corsair", "", TRUE),
       Rule("(?i)logitech.*gaming", "gap", "logitech", "gaming", TRUE),
       Rule("(?i)razer", "word", "razer", "", TRUE),
       Rule("(?i)copilot", "word", "copilot", "", TRUE),
       Rule("(?i)recall", "word", "recall", "", TRUE),
       Rule("(?i)cortana", "word", "cortana", "", TRUE),
       Rule("(?i)gamebar", "word", "gamebar", "", TRUE),
       Rule("(?i)xbox(?!.*identity)", "nolater", "xbox", "identity", TRUE),
       Rule("(?i)yourphone", "word", "yourphone", "", TRUE),
       Rule("(?i)teams", "word", "teams", "", TRUE),
       Rule("(?i)onedrive", "word", "onedrive", "", TRUE),
       Rule("(?i)edge.*update", "gap", "edge", "update", TRUE),
       Rule("(?i)adobe.*update", "gap", "adobe", "update", TRUE),
       Rule("(?i)google.*update", "gap", "google", "update", TRUE),
       Rule("(?i)spotify", "word", "spotify", "", TRUE),
       Rule("(?i)discord", "word", "discord", "", TRUE),
       Rule("(?i)steam", "word", "steam", "", TRUE),
       Rule("(?i)epic.*games", "gap", "epic", "games", TRUE),
       Rule("(?i)riot", "word", "riot", "", TRUE),
       Rule("(?i)nvidia.*telemetry", "gap", "nvidia", "telemetry", TRUE),
       Rule("(?i)geforce.*experience", "gap", "geforce", "experience", TRUE) >>

\* pattern.search(text); low is text.lower(), which the (?i) rules match against
Search(p, text, low) ==
    LET t == IF p.icase THEN low ELSE text
    IN  CASE p.form = "word" -> \E i \in DOMAIN t : t[i] = p.a
          [] p.form = "gap" ->
                \E i, j \in DOMAIN t : i < j /\ t[i] = p.a /\ t[j] = p.b
          [] p.form = "nolater" ->
                \E i \in DOMAIN t :
                    /\ t[i] = p.a
                    /\ ~ \E j \in DOMAIN t : j > i /\ t[j] = p.b
          [] OTHER -> FALSE

\* ---- the three YAML sources, as _load_yaml returns them
\* A Knowledge Base entry (known_processes.yaml): key and info mapping
Known(name, category, publisher, purpose, recommendation, safety_rating) ==
    [name |-> name,
     info |-> [category |-> category, publisher |-> publisher, purpose |-> purpose,
               recommendation |-> recommendation, safety_rating |-> safety_rating,
               notes |-> "from known_processes.yaml"]]

KnownFile ==
    << Known(<<"Razer">>, "rgb_software", "Razer Inc.", "peripheral control", "REMOVE", "SAFE"),
       Known(<<"explorer">>, "system", "Microsoft", "Windows shell", "KEEP", "CRITICAL"),
       Known(<<"Notepad">>, "system", "Microsoft", "text editor", "KEEP", "SAFE") >>

\* manifest.yaml with a critical_keep_list, and the mapping a missing or
\* malformed file loads as ({}: every .get falls back to its default)
ManifestFile ==
    [critical_keep_list |-> [processes |-> << <<"EXPLORER">> >>,
                             services |-> << <<"Razer", "Chroma">> >>]]
ManifestEmpty == [critical_keep_list |-> [processes |-> <<>>, services |-> <<>>]]

\* settings.yaml: its suspect_filter section; None is a key that is absent
SettingsFile ==
    [suspect_filter |->
        [high_memory_threshold_percent |-> Some(3),
         high_cpu_threshold_percent |-> None,
         flag_non_microsoft |-> Some(FALSE),
         bloatware_patterns |->
            << [pattern |-> "(unclosed", form |-> "none", a |-> "", b |-> "",
                icase |-> FALSE, valid |-> FALSE],
               Rule("notepad", "word", "notepad", "", FALSE) >>]]
SettingsEmpty ==
    [suspect_filter |->
        [high_memory_threshold_percent |-> None,
         high_cpu_threshold_percent |-> None,
         flag_non_microsoft |-> None,
         bloatware_patterns |-> <<>>]]

\* the defaults of suspect_filter.py:65-66, in percent
DefaultHighMemory == 2
DefaultHighCpu == 5

\* dict.get(key, default) of an optional setting
GetOr(v, default) == IF v = None THEN default ELSE v[1]

high_memory_threshold ==
    GetOr(settings.suspect_filter.high_memory_threshold_percent, DefaultHighMemory)
high_cpu_threshold ==
    GetOr(settings.suspect_filter.high_cpu_threshold_percent, DefaultHighCpu)
flag_non_microsoft == GetOr(settings.suspect_filter.flag_non_microsoft, TRUE)

IsValid(p) == p.valid

\* _compile_patterns with the operator-supplied patterns put first
CompileOperatorFirst(st) ==
    SelectSeq(st.suspect_filter.bloatware_patterns \o DEFAULT_PATTERNS, IsValid)

\* SuspectFilter._compile_patterns
_compile_patterns(st) ==
    SelectSeq(DEFAULT_PATTERNS \o st.suspect_filter.bloatware_patterns, IsValid)

\* _build_critical_keep_set reading only the "processes" key of the manifest
BuildKeepSetProcessesOnly(mf, kb) ==
    {LowerText(mf.critical_keep_list.processes[i]) :
        i \in DOMAIN mf.critical_keep_list.processes}
    \cup {LowerText(kb[i].name) :
        i \in {j \in DOMAIN kb : kb[j].info.safety_rating = "CRITICAL"}}

\* SuspectFilter._build_critical_keep_set
_build_critical_keep_set(mf, kb) ==
    {LowerText(mf.critical_keep_list.processes[i]) :
        i \in DOMAIN mf.critical_keep_list.processes}
    \cup {LowerText(mf.critical_keep_list.services[i]) :
        i \in DOMAIN mf.critical_keep_list.services}
    \cup {LowerText(kb[i].name) :
        i \in {j \in DOMAIN kb : kb[j].info.safety_rating = "CRITICAL"}}

\* SuspectFilter.__init__
SuspectFilterInit ==
    /\ settings \in {SettingsEmpty, SettingsFile}
    /\ known_processes \in {<<>>, KnownFile}
    /\ manifest \in {ManifestEmpty, ManifestFile}
    /\ patterns = _compile_patterns(settings)
    /\ critical_keep = _build_critical_keep_set(manifest, known_processes)
    /\ kind = "none"
    /\ given = <<>>
    /\ filtered = <<>>

\* No classifier is constructed during a change-application session.
FilterIdle ==
    /\ settings = SettingsEmpty
    /\ known_processes = <<>>
    /\ manifest = ManifestEmpty
    /\ patterns = <<>>
    /\ critical_keep = {}
    /\ kind = "none"
    /\ given = <<>>
    /\ filtered = <<>>

\* ---- the inventory records the collectors hand in
Names == { <<"Explorer">>, <<"Razer", "Chroma">>, <<"notepad">> }
\* a path or command line that matches the steam rule
SteamPath == <<"C:", "Steam", "app">>

ProcessRecords ==
    [name : Names, exe_path : {None, Some(SteamPath)}, cmdline : {None},
     memory_percent : {2, 3, 4}, cpu_percent : {5, 6},
     signature : {None, Some(<<"Microsoft", "Corporation">>), Some(<<"Razer", "Inc.">>)}]

\* ServiceCollector.collect: the records built from Win32_Service
WmiServiceRecords ==
    [name : Names, display_name : {Some(<<"Service">>)}, path : {None, Some(SteamPath)},
     is_microsoft : BOOLEAN, start_mode : {"Auto", "Manual"},
     state : {"Running", "Stopped"}]

\* ServiceCollector._collect_fallback, taken when the PowerShell call times out
\* or prints no JSON: name, display_name and state only, the state being the
\* third word of the STATE line of "sc query" ("STATE : 4  RUNNING" gives "4",
\* "STATE : 1  STOPPED" gives "1")
FallbackServiceRecords ==
    [name : Names, display_name : {Some(<<"Service">>)}, state : {"4", "1"}]

ServiceRecords == WmiServiceRecords \cup FallbackServiceRecords

\* enabled: None is a record without the key (item.get("enabled", True))
StartupRecords ==
    [name : Names, command : {None, Some(SteamPath)},
     enabled : {None, Some(TRUE), Some(FALSE)}]

TaskRecords ==
    [name : Names, path : {Some(<<"\\">>)}, actions : {None, Some(SteamPath)},
     is_microsoft : BOOLEAN, runs_at_logon : BOOLEAN, state : {"Ready", "Disabled"}]

\* the lists of at most MaxBatch records
Batches(S) == UNION { [1..n -> S] : n \in 1..MaxBatch }

\* the pattern loop without its break: one reason per matching rule
PatternReasonsEveryMatch(full_text) ==
    LET low == LowerText(full_text)
        Hit(p) == Search(p, full_text, low)
        matching == SelectSeq(patterns, Hit)
    IN  [i \in DOMAIN matching |-> "Matches bloatware pattern: " \o matching[i].pattern]

\* ---- classification
\* the pattern loop shared by the four _get_suspect_reasons_* methods:
\* the first rule of self.patterns that matches, then break
PatternReasons(full_text) ==
    LET low == LowerText(full_text)
        hits == {i \in DOMAIN patterns : Search(patterns[i], full_text, low)}
    IN  IF hits = {} THEN <<>>
        ELSE LET first == CHOOSE i \in hits : \A j \in hits : i <= j
             IN  <<"Matches bloatware pattern: " \o patterns[first].pattern>>

\* _get_suspect_reasons_process comparing with >= (a value at the threshold
\* is flagged)
ProcessReasonsAtThreshold(proc) ==
    IF LowerText(proc.name) \in critical_keep THEN <<>>
    ELSE
        PatternReasons(proc.name \o Sp \o Fmt(proc.exe_path) \o Sp \o Fmt(proc.cmdline))
        \o (IF proc.memory_percent >= high_memory_threshold
            THEN <<"High memory usage: " \o ToString(proc.memory_percent) \o "%">>
            ELSE <<>>)
        \o (IF proc.cpu_percent >= high_cpu_threshold
            THEN <<"High CPU usage: " \o ToString(proc.cpu_percent) \o "%">>
            ELSE <<>>)
        \o (IF ~flag_non_microsoft THEN <<>>
            ELSE IF Truthy(proc.signature)
                    /\ ~ \E i \in DOMAIN proc.signature[1] : proc.signature[1][i] = "Microsoft"
                 THEN <<"Non-Microsoft signed: " \o Str(proc.signature[1])>>
            ELSE IF proc.signature = None /\ Truthy(proc.exe_path)
                 THEN <<"Unsigned or signature not found">>
            ELSE <<>>)

\* _get_suspect_reasons_process with the unsigned test outside
\* "if self.flag_non_microsoft:"
ProcessReasonsUnsignedUnflagged(proc) ==
    IF LowerText(proc.name) \in critical_keep THEN <<>>
    ELSE
        PatternReasons(proc.name \o Sp \o Fmt(proc.exe_path) \o Sp \o Fmt(proc.cmdline))
        \o (IF proc.memory_percent > high_memory_threshold
            THEN <<"High memory usage: " \o ToString(proc.memory_percent) \o "%">>
            ELSE <<>>)
        \o (IF proc.cpu_percent > high_cpu_threshold
            THEN <<"High CPU usage: " \o ToString(proc.cpu_percent) \o "%">>
            ELSE <<>>)
        \o (IF flag_non_microsoft /\ Truthy(proc.signature)
                    /\ ~ \E i \in DOMAIN proc.signature[1] : proc.signature[1][i] = "Microsoft"
                 THEN <<"Non-Microsoft signed: " \o Str(proc.signature[1])>>
            ELSE IF proc.signature = None /\ Truthy(proc.exe_path)
                 THEN <<"Unsigned or signature not found">>
            ELSE <<>>)

\* rec.get(key) of a record that may lack the key: f"{rec.get(key, '')}" of a
\* text, the truth of a flag (None is false), and a word ("" stands for None,
\* which equals no word the code compares it with)
GetText(rec, key) == IF key \in DOMAIN rec THEN Fmt(rec[key]) ELSE <<>>
GetFlag(rec, key) == key \in DOMAIN rec /\ rec[key]
GetWord(rec, key) == IF key \in DOMAIN rec THEN rec[key] ELSE ""

\* _get_suspect_reasons_process with the CPU test before the memory test and
\* the pattern loop last
ProcessReasonsReordered(proc) ==
    IF LowerText(proc.name) \in critical_keep THEN <<>>
    ELSE
        (IF proc.cpu_percent > high_cpu_threshold
            THEN <<"High CPU usage: " \o ToString(proc.cpu_percent) \o "%">>
            ELSE <<>>)
        \o (IF proc.memory_percent > high_memory_threshold
            THEN <<"High memory usage: " \o ToString(proc.memory_percent) \o "%">>
            ELSE <<>>)
        \o (IF ~flag_non_microsoft THEN <<>>
            ELSE IF Truthy(proc.signature)
                    /\ ~ \E i \in DOMAIN proc.signature[1] : proc.signature[1][i] = "Microsoft"
                 THEN <<"Non-Microsoft signed: " \o Str(proc.signature[1])>>
            ELSE IF proc.signature = None /\ Truthy(proc.exe_path)
                 THEN <<"Unsigned or signature not found">>
            ELSE <<>>)
        \o PatternReasons(proc.name \o Sp \o Fmt(proc.exe_path) \o Sp \o Fmt(proc.cmdline))

\* SuspectFilter._get_suspect_reasons_process
_get_suspect_reasons_process(proc) ==
    IF LowerText(proc.name) \in critical_keep THEN <<>>
    ELSE
        PatternReasons(proc.name \o Sp \o Fmt(proc.exe_path) \o Sp \o Fmt(proc.cmdline))
        \o (IF proc.memory_percent > high_memory_threshold
            THEN <<"High memory usage: " \o ToString(proc.memory_percent) \o "%">>
            ELSE <<>>)
        \o (IF proc.cpu_percent > high_cpu_threshold
            THEN <<"High CPU usage: " \o ToString(proc.cpu_percent) \o "%">>
            ELSE <<>>)
        \o (IF ~flag_non_microsoft THEN <<>>
            ELSE IF Truthy(proc.signature)
                    /\ ~ \E i \in DOMAIN proc.signature[1] : proc.signature[1][i] = "Microsoft"
                 THEN <<"Non-Microsoft signed: " \o Str(proc.signature[1])>>
            ELSE IF proc.signature = None /\ Truthy(proc.exe_path)
                 THEN <<"Unsigned or signature not found">>
            ELSE <<>>)

\* SuspectFilter._get_suspect_reasons_service
_get_suspect_reasons_service(svc) ==
    IF LowerText(svc.name) \in critical_keep THEN <<>>
    ELSE
        PatternReasons(svc.name \o Sp \o Fmt(svc.display_name) \o Sp \o GetText(svc, "path"))
        \o (IF ~GetFlag(svc, "is_microsoft") /\ GetWord(svc, "start_mode") = "Auto"
            THEN <<"Third-party service set to Auto start">> ELSE <<>>)
        \o (IF ~GetFlag(svc, "is_microsoft") /\ GetWord(svc, "state") = "Running"
            THEN <<"Third-party service currently running">> ELSE <<>>)

\* _get_suspect_reasons_startup with the enabled test as the else of the
\* pattern loop (a matching pattern suppresses it)
StartupReasonsPatternOrEnabled(item) ==
    IF LowerText(item.name) \in critical_keep THEN <<>>
    ELSE
        LET matched == PatternReasons(item.name \o Sp \o Fmt(item.command))
        IN  IF matched # <<>> THEN matched
            ELSE IF GetOr(item.enabled, TRUE) THEN <<"Enabled startup item">>
            ELSE <<>>

\* SuspectFilter._get_suspect_reasons_startup
_get_suspect_reasons_startup(item) ==
    IF LowerText(item.name) \in critical_keep THEN <<>>
    ELSE
        PatternReasons(item.name \o Sp \o Fmt(item.command))
        \o (IF GetOr(item.enabled, TRUE) THEN <<"Enabled startup item">> ELSE <<>>)

\* SuspectFilter._get_suspect_reasons_task
_get_suspect_reasons_task(task) ==
    IF LowerText(task.name) \in critical_keep THEN <<>>
    ELSE
        PatternReasons(task.name \o Sp \o Fmt(task.path) \o Sp \o Fmt(task.actions))
        \o (IF ~task.is_microsoft /\ task.runs_at_logon
            THEN <<"Third-party task runs at logon/boot">> ELSE <<>>)
        \o (IF ~task.is_microsoft /\ task.state = "Ready"
            THEN <<"Third-party task is enabled">> ELSE <<>>)

\* _get_known_info without the exact test: the first key equal ignoring case
GetKnownInfoIgnoringCaseOnly(name) ==
    LET folded == {i \in DOMAIN known_processes :
                      LowerText(known_processes[i].name) = LowerText(name)}
    IN  IF folded # {}
        THEN Some(known_processes[CHOOSE i \in folded : \A j \in folded : i <= j].info)
        ELSE None

\* SuspectFilter._get_known_info: exact key, else the first key equal ignoring case
_get_known_info(name) ==
    LET exact == {i \in DOMAIN known_processes : known_processes[i].name = name}
        folded == {i \in DOMAIN known_processes :
                      LowerText(known_processes[i].name) = LowerText(name)}
        first(S) == CHOOSE i \in S : \A j \in S : i <= j
    IN  IF exact # {} THEN Some(known_processes[first(exact)].info)
        ELSE IF folded # {} THEN Some(known_processes[first(folded)].info)
        ELSE None

\* Marked that also normalises the record's name to lower case
MarkedLowersName(rec, reasons) ==
    LET rs == reasons
    IN  [f \in DOMAIN rec \cup {"is_suspect", "suspect_reasons", "known_info"} |->
            CASE f = "is_suspect" -> Len(rs) > 0
              [] f = "suspect_reasons" -> rs
              [] f = "known_info" -> _get_known_info(rec.name)
              [] f = "name" -> LowerText(rec.name)
              [] OTHER -> rec[f]]

\* Marked with is_suspect = len(reasons) > 1
MarkedOffByOne(rec, reasons) ==
    LET rs == reasons
    IN  [f \in DOMAIN rec \cup {"is_suspect", "suspect_reasons", "known_info"} |->
            CASE f = "is_suspect" -> Len(rs) > 1
              [] f = "suspect_reasons" -> rs
              [] f = "known_info" -> _get_known_info(rec.name)
              [] OTHER -> rec[f]]

\* the three assignments of the loop body of every filter_* method
Marked(rec, reasons) ==
    LET rs == reasons
    IN  [f \in DOMAIN rec \cup {"is_suspect", "suspect_reasons", "known_info"} |->
            CASE f = "is_suspect" -> Len(rs) > 0
              [] f = "suspect_reasons" -> rs
              [] f = "known_info" -> _get_known_info(rec.name)
              [] OTHER -> rec[f]]

\* One filter_* call on a freshly constructed SuspectFilter.  The methods
\* read self but never write it, so every call starts from this state.
filter_processes ==
    /\ kind = "none"
    /\ \E processes \in Batches(ProcessRecords) :
          /\ given' = processes
          /\ filtered' = [i \in DOMAIN processes |->
                Marked(processes[i], _get_suspect_reasons_process(processes[i]))]
    /\ kind' = "process"
    /\ UNCHANGED <<settings, known_processes, manifest, patterns, critical_keep>>
    /\ UNCHANGED <<journalVars, researchVars, writerVars>>

filter_services ==
    /\ kind = "none"
    /\ \E services \in Batches(ServiceRecords) :
          /\ given' = services
          /\ filtered' = [i \in DOMAIN services |->
                Marked(services[i], _get_suspect_reasons_service(services[i]))]
    /\ kind' = "service"
    /\ UNCHANGED <<settings, known_processes, manifest, patterns, critical_keep>>
    /\ UNCHANGED <<journalVars, researchVars, writerVars>>

filter_startup_items ==
    /\ kind = "none"
    /\ \E items \in Batches(StartupRecords) :
          /\ given' = items
          /\ filtered' = [i \in DOMAIN items |->
                Marked(items[i], _get_suspect_reasons_startup(items[i]))]
    /\ kind' = "startup"
    /\ UNCHANGED <<settings, known_processes, manifest, patterns, critical_keep>>
    /\ UNCHANGED <<journalVars, researchVars, writerVars>>

filter_tasks ==
    /\ kind = "none"
    /\ \E tasks \in Batches(TaskRecords) :
          /\ given' = tasks
          /\ filtered' = [i \in DOMAIN tasks |->
                Marked(tasks[i], _get_suspect_reasons_task(tasks[i]))]
    /\ kind' = "task"
    /\ UNCHANGED <<settings, known_processes, manifest, patterns, critical_keep>>
    /\ UNCHANGED <<journalVars, researchVars, writerVars>>

FilterNext ==
    \/ filter_processes
    \/ filter_services
    \/ filter_startup_items
    \/ filter_tasks

\* =========================================================== AIResearcher
\* ---- loading the Knowledge Base
\* What config/known_processes.yaml can be when an analyzer is constructed:
\*   missing     path.exists() is False
\*   unreadable  open() raises IOError
\*   invalid     not YAML: yaml.safe_load raises YAMLError
\*   empty       an empty document: yaml.safe_load returns None
\*   mapping     a mapping of names to entries
\*   sequence    well-formed YAML whose top level is a list of names, not a mapping
KbSources == {"missing", "unreadable", "invalid", "empty", "mapping", "sequence"}

\* known_processes.yaml as a mapping.  Razer is a substring of the other two
\* keys and comes first; the last two keys differ only in case.
ResearchKnownFile ==
    << Known(<<"Razer">>, "peripheral", "Razer Inc.", "device companion", "DISABLE", "CAUTION"),
       Known(<<"razer", "chroma">>, "rgb_software", "Razer Inc.", "lighting control", "REMOVE", "SAFE"),
       Known(<<"Razer", "Chroma">>, "rgb_software", "Razer Inc.", "Chroma SDK service", "MANUAL", "SAFE") >>

\* known_processes.yaml as a YAML list: the names, without entries
ResearchKnownList == << <<"Razer">>, <<"Razer", "Chroma">> >>

\* A loaded value: Python keeps what yaml.safe_load returned, a dict (in key
\* order) or a list.
EmptyMapping == [shape |-> "dict", entries |-> <<>>]

\* SuspectFilter._load_yaml and AIResearcher._load_known_processes (the same
\* code): "yaml.safe_load(f) or {}" inside try/except (yaml.YAMLError, IOError)
_load_yaml(source) ==
    CASE source = "missing" -> EmptyMapping
      [] source = "unreadable" -> EmptyMapping
      [] source = "invalid" -> EmptyMapping
      [] source = "empty" -> EmptyMapping
      [] source = "mapping" -> [shape |-> "dict", entries |-> ResearchKnownFile]
      [] source = "sequence" -> [shape |-> "list", entries |-> ResearchKnownList]

\* ---- the records handed to the researcher: classified inventory records
\* An entry the classifier attached as known_info; it has no publisher,
\* safety_rating or notes key.
AttachedInfo ==
    [category |-> "utility", purpose |-> "vendor tool", recommendation |-> "KEEP"]

\* a path with a keyword of the gaming bucket before one of the rgb_software bucket
ChromaOnSteamPath == <<"C:", "Steam", "Chroma">>

\* name, path, attached known_info and is_suspect of the records
ResearchCases ==
    { [name |-> <<"Razer", "Chroma">>, path |-> None, known_info |-> None, is_suspect |-> TRUE],
      [name |-> <<"razer", "Chroma">>, path |-> None, known_info |-> None, is_suspect |-> TRUE],
      [name |-> <<"Razer", "Steam">>, path |-> None, known_info |-> None, is_suspect |-> TRUE],
      [name |-> <<"Chroma">>, path |-> None, known_info |-> None, is_suspect |-> TRUE],
      [name |-> <<"XClient">>, path |-> None, known_info |-> None, is_suspect |-> TRUE],
      [name |-> <<"XClient">>, path |-> Some(SteamPath), known_info |-> None, is_suspect |-> TRUE],
      [name |-> <<"XClient">>, path |-> Some(ChromaOnSteamPath), known_info |-> None,
       is_suspect |-> TRUE],
      [name |-> <<"Razer", "Chroma">>, path |-> None, known_info |-> Some(AttachedInfo),
       is_suspect |-> TRUE],
      [name |-> <<"Explorer">>, path |-> None, known_info |-> None, is_suspect |-> FALSE] }

\* The record of one kind for a case: the path is exe_path for a process,
\* path for a service or task, command for a startup item.
ResearchRecord(item_type, c) ==
    LET reasons ==
            CASE ~c.is_suspect -> <<>>
              [] item_type = "process" -> <<"Unsigned or signature not found">>
              [] item_type = "service" -> <<"Third-party service currently running">>
              [] item_type = "startup" -> <<"Enabled startup item">>
              [] item_type = "task" -> <<"Third-party task is enabled">>
        common == [name |-> c.name, is_suspect |-> c.is_suspect,
                   suspect_reasons |-> reasons, known_info |-> c.known_info]
    IN  CASE item_type = "process" -> common @@ [exe_path |-> c.path, signature |-> None]
          [] item_type = "service" -> common @@ [path |-> c.path]
          [] item_type = "startup" -> common @@ [command |-> c.path]
          [] item_type = "task" -> common @@ [path |-> c.path, author |-> None]

ResearchRecords(item_type) == {ResearchRecord(item_type, c) : c \in ResearchCases}

\* ---- resolution of one record
\* "s in t" of two texts: s is a run of consecutive words of t
Contains(t, s) ==
    \E i \in 1..(Len(t) - Len(s) + 1) : SubSeq(t, i, i + Len(s) - 1) = s

\* "kw in text" for a single word
Occurs(kw, t) == \E i \in DOMAIN t : t[i] = kw

\* item.get(key): None when the record has no such key
ItemGet(item, key) == IF key \in DOMAIN item THEN item[key] ELSE None

\* info.get(key, default) of a Knowledge Base entry
InfoGet(info, key, default) == IF key \in DOMAIN info THEN info[key] ELSE default

\* _lookup_known as one loop: the first key in iteration order that matches
\* the name in any of the three ways
LookupFirstOfAnyTier(kb, name) ==
    LET name_lower == LowerText(name)
        partial == {i \in DOMAIN kb :
                       \/ Contains(name_lower, LowerText(kb[i].name))
                       \/ Contains(LowerText(kb[i].name), name_lower)}
    IN  IF partial # {} THEN Some(kb[CHOOSE i \in partial : \A j \in partial : i <= j].info)
        ELSE None

\* AIResearcher._lookup_known on a Knowledge Base that is a dict
_lookup_known(kb, name) ==
    LET name_lower == LowerText(name)
        exact == {i \in DOMAIN kb : kb[i].name = name}
        folded == {i \in DOMAIN kb : LowerText(kb[i].name) = name_lower}
        partial == {i \in DOMAIN kb :
                       \/ Contains(name_lower, LowerText(kb[i].name))
                       \/ Contains(LowerText(kb[i].name), name_lower)}
        first(S) == CHOOSE i \in S : \A j \in S : i <= j
    IN  IF exact # {} THEN Some(kb[first(exact)].info)
        ELSE IF folded # {} THEN Some(kb[first(folded)].info)
        ELSE IF partial # {} THEN Some(kb[first(partial)].info)
        ELSE None

\* the keyword table of _guess_category, in the order it is walked
CategoryKeywords ==
    << [category |-> "updater", keywords |-> {"update", "updater"}],
       [category |-> "rgb_software", keywords |-> {"rgb", "chroma", "lighting", "icue"}],
       [category |-> "ai_feature", keywords |-> {"copilot", "recall", "cortana", "ai"}],
       [category |-> "telemetry", keywords |-> {"telemetry", "diag", "feedback"}],
       [category |-> "gaming", keywords |-> {"game", "steam", "epic", "xbox"}],
       [category |-> "driver", keywords |-> {"driver", "drv"}],
       [category |-> "security", keywords |-> {"security", "antivirus", "defender"}] >>

\* str(item.get("exe_path", item.get("path", item.get("command", "")))).lower()
GuessPath(item) ==
    LowerText(IF "exe_path" \in DOMAIN item THEN Fmt(item.exe_path)
              ELSE IF "path" \in DOMAIN item THEN Fmt(item.path)
              ELSE IF "command" \in DOMAIN item THEN Fmt(item.command)
              ELSE <<>>)

\* _guess_category walking its table from the last bucket to the first
GuessCategoryLastBucket(item) ==
    LET name == LowerText(item.name)
        path == GuessPath(item)
        hits == {i \in DOMAIN CategoryKeywords :
                    \E kw \in CategoryKeywords[i].keywords : Occurs(kw, name) \/ Occurs(kw, path)}
    IN  IF hits = {} THEN "unknown"
        ELSE CategoryKeywords[CHOOSE i \in hits : \A j \in hits : i >= j].category

\* AIResearcher._guess_category
_guess_category(item) ==
    LET name == LowerText(item.name)
        path == GuessPath(item)
        hits == {i \in DOMAIN CategoryKeywords :
                    \E kw \in CategoryKeywords[i].keywords : Occurs(kw, name) \/ Occurs(kw, path)}
    IN  IF hits = {} THEN "unknown"
        ELSE CategoryKeywords[CHOOSE i \in hits : \A j \in hits : i <= j].category

\* the publishers dict of _extract_publisher, in order
Publishers ==
    << [key |-> "microsoft", publisher |-> "Microsoft"],
       [key |-> "google", publisher |-> "Google"],
       [key |-> "adobe", publisher |-> "Adobe"],
       [key |-> "nvidia", publisher |-> "NVIDIA"],
       [key |-> "amd", publisher |-> "AMD"],
       [key |-> "intel", publisher |-> "Intel"],
       [key |-> "razer", publisher |-> "Razer Inc."],
       [key |-> "corsair", publisher |-> "Corsair"],
       [key |-> "logitech", publisher |-> "Logitech"],
       [key |-> "steam", publisher |-> "Valve"],
       [key |-> "discord", publisher |-> "Discord Inc."] >>

\* AIResearcher._extract_publisher: <<string>>, or None
_extract_publisher(item) ==
    LET path == LowerText(IF "exe_path" \in DOMAIN item THEN Fmt(item.exe_path)
                          ELSE IF "path" \in DOMAIN item THEN Fmt(item.path)
                          ELSE <<>>)
        hits == {i \in DOMAIN Publishers : Occurs(Publishers[i].key, path)}
    IN  IF Truthy(ItemGet(item, "signature")) THEN Some(Str(item.signature[1]))
        ELSE IF Truthy(ItemGet(item, "author")) THEN Some(Str(item.author[1]))
        ELSE IF hits # {}
             THEN Some(Publishers[CHOOSE i \in hits : \A j \in hits : i <= j].publisher)
        ELSE None

\* "\n".join(lines)
RECURSIVE JoinLines(_)
JoinLines(lines) ==
    IF Len(lines) = 0 THEN ""
    ELSE IF Len(lines) = 1 THEN lines[1]
    ELSE lines[1] \o "\n" \o JoinLines(Tail(lines))

\* AIResearcher._generate_research_notes
_generate_research_notes(item, item_type) ==
    LET name == Str(item.name)
        path == IF Truthy(ItemGet(item, "exe_path")) THEN item.exe_path
                ELSE IF Truthy(ItemGet(item, "path")) THEN item.path
                ELSE ItemGet(item, "command")
        reasons == item.suspect_reasons
    IN  JoinLines(
            << "Item '" \o name \o "' requires manual research.",
               "\nSuggested searches:",
               "  - \"" \o name \o " what is\"",
               "  - \"" \o name \o " safe to disable\"",
               "  - \"" \o name \o " Windows 11\"" >>
            \o (IF Truthy(path) THEN <<"\nFile location: " \o Str(path[1])>> ELSE <<>>)
            \o (IF reasons # <<>>
                THEN <<"\nFlagged because:">> \o [i \in DOMAIN reasons |-> "  - " \o reasons[i]]
                ELSE <<>>))

\* AIResearcher._extract_item_details
_extract_item_details(item, item_type) ==
    CASE item_type = "process" ->
            [type |-> item_type, pid |-> ItemGet(item, "pid"),
             exe_path |-> ItemGet(item, "exe_path"), memory_mb |-> ItemGet(item, "memory_mb"),
             cpu_percent |-> ItemGet(item, "cpu_percent"), parent |-> ItemGet(item, "parent_name")]
      [] item_type = "service" ->
            [type |-> item_type, display_name |-> ItemGet(item, "display_name"),
             state |-> ItemGet(item, "state"), start_mode |-> ItemGet(item, "start_mode"),
             path |-> ItemGet(item, "path"), account |-> ItemGet(item, "account")]
      [] item_type = "startup" ->
            [type |-> item_type, command |-> ItemGet(item, "command"),
             source |-> ItemGet(item, "source"), location |-> ItemGet(item, "location"),
             enabled |-> ItemGet(item, "enabled")]
      [] item_type = "task" ->
            [type |-> item_type, path |-> ItemGet(item, "path"),
             state |-> ItemGet(item, "state"), triggers |-> ItemGet(item, "triggers"),
             actions |-> ItemGet(item, "actions"), runs_at_logon |-> ItemGet(item, "runs_at_logon")]
      [] OTHER -> [type |-> item_type]

\* KnownResult that leaves the entry's notes behind
KnownResultWithoutNotes(info) ==
    [source |-> "known_processes_database",
     category |-> InfoGet(info, "category", "unknown"),
     publisher |-> Some(InfoGet(info, "publisher", "Unknown")),
     purpose |-> InfoGet(info, "purpose", "Unknown"),
     recommendation |-> InfoGet(info, "recommendation", "REVIEW"),
     safety_rating |-> InfoGet(info, "safety_rating", "UNKNOWN"),
     notes |-> "",
     requires_further_research |-> FALSE]

\* the six fields research_item takes from the entry it found (the branch
\* "if known_info:"); publisher is <<string>>, as it is None in the other branch
KnownResult(info) ==
    [source |-> "known_processes_database",
     category |-> InfoGet(info, "category", "unknown"),
     publisher |-> Some(InfoGet(info, "publisher", "Unknown")),
     purpose |-> InfoGet(info, "purpose", "Unknown"),
     recommendation |-> InfoGet(info, "recommendation", "REVIEW"),
     safety_rating |-> InfoGet(info, "safety_rating", "UNKNOWN"),
     notes |-> InfoGet(info, "notes", ""),
     requires_further_research |-> FALSE]

\* UnknownResult that recommends KEEP for what it could not find
UnknownResultKeeps(item, item_type) ==
    [source |-> "needs_research",
     category |-> _guess_category(item),
     publisher |-> _extract_publisher(item),
     purpose |-> "Unknown - requires research",
     recommendation |-> "KEEP",
     safety_rating |-> "UNKNOWN",
     notes |-> _generate_research_notes(item, item_type),
     requires_further_research |-> TRUE]

\* the same fields when nothing was found (the branch "else:")
UnknownResult(item, item_type) ==
    [source |-> "needs_research",
     category |-> _guess_category(item),
     publisher |-> _extract_publisher(item),
     purpose |-> "Unknown - requires research",
     recommendation |-> "REVIEW",
     safety_rating |-> "UNKNOWN",
     notes |-> _generate_research_notes(item, item_type),
     requires_further_research |-> TRUE]

\* item.get("known_info") or self._lookup_known(name)
Resolve(kb, item) ==
    LET attached == ItemGet(item, "known_info")
    IN  IF attached # None /\ DOMAIN attached[1] # {} THEN attached
        ELSE _lookup_known(kb, item.name)

\* AIResearcher.research_item on a Knowledge Base that is a dict (the
\* researched_at time stamp is left out)
research_item(kb, item, item_type) ==
    LET known_info == Resolve(kb, item)
    IN  [name |-> item.name, type |-> item_type,
         suspect_reasons |-> ItemGet(item, "suspect_reasons")]
        @@ (IF known_info # None THEN KnownResult(known_info[1])
            ELSE UnknownResult(item, item_type))
        @@ [item_details |-> _extract_item_details(item, item_type)]

\* When self.known_processes is a list, _lookup_known raises: TypeError at
\* self.known_processes[name] if the name is in the list, else AttributeError
\* at self.known_processes.keys().  A record with known_info never gets there.
LookupRaises(loaded, item) ==
    LET attached == ItemGet(item, "known_info")
    IN  IF loaded.shape = "dict" \/ (attached # None /\ DOMAIN attached[1] # {}) THEN ""
        ELSE IF \E i \in DOMAIN loaded.entries : loaded.entries[i] = item.name
             THEN "TypeError"
        ELSE "AttributeError"

\* ---- research_all_suspects
\* the test "if proc.get('is_suspect'):" left out: every record is researched
IsAnyRecord(item) == TRUE

IsSuspect(item) == item.is_suspect

NoLists == [processes |-> <<>>, services |-> <<>>, startup_items |-> <<>>, tasks |-> <<>>]

\* the suspects of the four lists with their item_type, in the order the four
\* loops meet them
SuspectWalk(lists) ==
    LET Tag(items, item_type) ==
            [i \in DOMAIN SelectSeq(items, IsSuspect) |->
                [item |-> SelectSeq(items, IsSuspect)[i], item_type |-> item_type]]
    IN  Tag(lists.processes, "process") \o Tag(lists.services, "service")
        \o Tag(lists.startup_items, "startup") \o Tag(lists.tasks, "task")

\* what the four loops return when no research_item call raises
ResearchAll(kb, lists) ==
    LET Each(items, item_type) ==
            [i \in DOMAIN SelectSeq(items, IsSuspect) |->
                research_item(kb, SelectSeq(items, IsSuspect)[i], item_type)]
    IN  [processes |-> Each(lists.processes, "process"),
         services |-> Each(lists.services, "service"),
         startup_items |-> Each(lists.startup_items, "startup"),
         tasks |-> Each(lists.tasks, "task")]

\* ---- generate_recommendations
RecommendationKeys == {"REMOVE", "DISABLE", "KEEP", "REVIEW"}

\* results.items() flattened: every result with the key of its list
ResultsWalk(res) ==
    LET Tag(items, key) == [i \in DOMAIN items |-> [item |-> items[i], item_type |-> key]]
    IN  Tag(res.processes, "processes") \o Tag(res.services, "services")
        \o Tag(res.startup_items, "startup_items") \o Tag(res.tasks, "tasks")

\* the dict appended to a bucket
Recommended(item, item_type) ==
    [name |-> item.name, type |-> item_type, category |-> item.category,
     purpose |-> item.purpose, safety_rating |-> item.safety_rating]

\* Buckets with recommendations[rec].insert(0, ...) in place of append
RECURSIVE BucketsPrepending(_, _)
BucketsPrepending(walk, recs) ==
    IF walk = <<>> THEN recs
    ELSE LET rec == Head(walk).item.recommendation
         IN  BucketsPrepending(Tail(walk),
                [recs EXCEPT ![rec] = <<Recommended(Head(walk).item, Head(walk).item_type)>> \o @])

\* the double loop of generate_recommendations from the buckets recs on, when
\* every recommendation is a key
RECURSIVE Buckets(_, _)
Buckets(walk, recs) ==
    IF walk = <<>> THEN recs
    ELSE LET rec == Head(walk).item.recommendation
         IN  Buckets(Tail(walk),
                [recs EXCEPT ![rec] = Append(@, Recommended(Head(walk).item, Head(walk).item_type))])

\* ---- the analysis run (scripts/analyze_suspects.py: SuspectFilter(),
\* AIResearcher(), research_all_suspects, generate_recommendations).  The two
\* analyzers share nothing but the Knowledge Base file, so a behaviour
\* constructs one of them: the construction of the other would only repeat it.
\* Before any analyzer is constructed, for a given Knowledge Base file
ResearchStart(sources) ==
    /\ kb_source \in sources
    /\ classifier = "none"
    /\ researcher = "none"
    /\ researcher_kb = EmptyMapping
    /\ suspects = NoLists
    /\ results = None
    /\ recommendations = None
    /\ r_op = "none"
    /\ r_raised = ""

\* No analysis is run during a journal session or a lone classification.
ResearchIdle == ResearchStart({"missing"})

\* SuspectFilter(): the three loads, _compile_patterns, _build_critical_keep_set.
\* settings.yaml and manifest.yaml are missing here.  On a Knowledge Base that
\* is a list, self.known_processes.items() raises AttributeError.
NewSuspectFilter ==
    /\ classifier = "none"
    /\ researcher = "none"
    /\ LET loaded == _load_yaml(kb_source)
       IN  IF loaded.shape = "dict"
           THEN /\ classifier' = "ready"
                /\ known_processes' = loaded.entries
                /\ patterns' = _compile_patterns(settings)
                /\ critical_keep' = _build_critical_keep_set(manifest, loaded.entries)
           ELSE /\ classifier' = "failed"
                /\ UNCHANGED <<known_processes, patterns, critical_keep>>
    /\ UNCHANGED <<settings, manifest, kind, given, filtered>>
    /\ UNCHANGED <<kb_source, researcher, researcher_kb, suspects, results,
                   recommendations, r_op, r_raised>>
    /\ UNCHANGED <<journalVars, writerVars>>

\* AIResearcher(): keeps whatever _load_known_processes returned
NewAIResearcher ==
    /\ researcher = "none"
    /\ classifier = "none"
    /\ researcher' = "ready"
    /\ researcher_kb' = _load_yaml(kb_source)
    /\ r_op' = "__init__"
    /\ r_raised' = ""
    /\ UNCHANGED <<kb_source, classifier, suspects, results, recommendations>>
    /\ UNCHANGED <<journalVars, filterVars, writerVars>>

\* research_all_suspects on up to MaxRecords records; the first research_item
\* call that raises ends it
research_all_suspects ==
    /\ researcher = "ready"
    /\ r_op = "__init__"
    /\ \E np, ns, nu, nt \in 0..MaxRecords :
          /\ np + ns + nu + nt <= MaxRecords
          /\ \E processes \in [1..np -> ResearchRecords("process")],
                services \in [1..ns -> ResearchRecords("service")],
                startup_items \in [1..nu -> ResearchRecords("startup")],
                tasks \in [1..nt -> ResearchRecords("task")] :
                LET lists == [processes |-> processes, services |-> services,
                              startup_items |-> startup_items, tasks |-> tasks]
                    walk == SuspectWalk(lists)
                    raising == {i \in DOMAIN walk :
                                   LookupRaises(researcher_kb, walk[i].item) # ""}
                IN  /\ suspects' = lists
                    /\ IF raising = {}
                       THEN /\ results' = Some(ResearchAll(researcher_kb.entries, lists))
                            /\ r_raised' = ""
                       ELSE /\ results' = None
                            /\ r_raised' = LookupRaises(researcher_kb,
                                  walk[CHOOSE i \in raising : \A j \in raising : i <= j].item)
    /\ r_op' = "research_all_suspects"
    /\ UNCHANGED <<kb_source, classifier, researcher, researcher_kb, recommendations>>
    /\ UNCHANGED <<journalVars, filterVars, writerVars>>

\* generate_recommendations(results): recommendations[rec] raises KeyError
\* at the first result whose recommendation is not one of the four keys
generate_recommendations ==
    /\ r_op = "research_all_suspects"
    /\ results # None
    /\ LET walk == ResultsWalk(results[1])
       IN  IF \A i \in DOMAIN walk : walk[i].item.recommendation \in RecommendationKeys
           THEN /\ recommendations' = Some(Buckets(walk, [k \in RecommendationKeys |-> <<>>]))
                /\ r_raised' = ""
           ELSE /\ recommendations' = None
                /\ r_raised' = "KeyError"
    /\ r_op' = "generate_recommendations"
    /\ UNCHANGED <<kb_source, classifier, researcher, researcher_kb, suspects, results>>
    /\ UNCHANGED <<journalVars, filterVars, writerVars>>

\* ---- the whole run of scripts/analyze_suspects.py
\* The inventories main() loads: processes signed by another publisher and
\* enabled startup items, which the classifier flags whatever their name.
InventoryNames ==
    { <<"Razer", "Chroma">>, <<"razer", "Chroma">>, <<"Razer", "Steam">>,
      <<"Chroma">>, <<"XClient">> }
InventoryProcesses ==
    [name : InventoryNames, exe_path : {None}, cmdline : {None},
     memory_percent : {0}, cpu_percent : {0}, signature : {Some(<<"Razer", "Inc.">>)}]
InventoryStartupItems == [name : InventoryNames, command : {None}, enabled : {Some(TRUE)}]

\* main() after SuspectFilter() has been constructed (NewSuspectFilter):
\* AIResearcher() on the same Knowledge Base file, filter_processes and
\* filter_startup_items on the inventories, research_all_suspects on what the
\* filters returned, generate_recommendations on its results (an empty service
\* and task inventory).  A KeyError of generate_recommendations ends the run.
main ==
    /\ classifier = "ready"
    /\ researcher = "none"
    /\ researcher' = "ready"
    /\ researcher_kb' = _load_yaml(kb_source)
    /\ \E np, nu \in 0..MaxRecords :
          /\ np + nu <= MaxRecords
          /\ \E processes \in [1..np -> InventoryProcesses],
                startup_items \in [1..nu -> InventoryStartupItems] :
                LET filtered_processes ==
                        [i \in DOMAIN processes |->
                            Marked(processes[i], _get_suspect_reasons_process(processes[i]))]
                    filtered_startup ==
                        [i \in DOMAIN startup_items |->
                            Marked(startup_items[i],
                                   _get_suspect_reasons_startup(startup_items[i]))]
                    lists == [processes |-> filtered_processes, services |-> <<>>,
                              startup_items |-> filtered_startup, tasks |-> <<>>]
                    research_results == ResearchAll(_load_yaml(kb_source).entries, lists)
                    walk == ResultsWalk(research_results)
                IN  /\ suspects' = lists
                    /\ results' = Some(research_results)
                    /\ IF \A i \in DOMAIN walk :
                              walk[i].item.recommendation \in RecommendationKeys
                       THEN /\ recommendations' =
                                  Some(Buckets(walk, [k \in RecommendationKeys |-> <<>>]))
                            /\ r_raised' = ""
                       ELSE /\ recommendations' = None
                            /\ r_raised' = "KeyError"
    /\ r_op' = "main"
    /\ UNCHANGED <<kb_source, classifier>>
    /\ UNCHANGED <<journalVars, filterVars, writerVars>>

ResearchNext ==
    \/ NewSuspectFilter
    \/ NewAIResearcher
    \/ research_all_suspects
    \/ generate_recommendations
    \/ main

\* The analysis alone: the journal stays as constructed.
ResearchInit == ResearchStart(KbSources) /\ JournalFresh /\ FilterIdle /\ WritersIdle

ResearchSpec == ResearchInit /\ [][ResearchNext]_vars

\* The classifier alone: the journal stays as constructed, no analysis is run.
FilterInit == SuspectFilterInit /\ JournalFresh /\ ResearchIdle /\ WritersIdle

FilterSpec == FilterInit /\ [][FilterNext]_vars

\* The journal alone: a session of one AuditLogger.
JournalInit == JournalFresh /\ FilterIdle /\ ResearchIdle /\ WritersIdle

JournalSpec == JournalInit /\ [][JournalNext]_vars

\* Two threads recording on a fresh journal, serialized by their callers or not.
WritersInit ==
    WritersStart({"serialized", "free"}) /\ JournalFresh /\ FilterIdle /\ ResearchIdle

WritersSpec == WritersInit /\ [][WritersNext]_vars

\* ================================================================ claims
\* ---- vocabulary of the claims
\* the elements of a sequence
Range(q) == {q[i] : i \in DOMAIN q}

\* The Critical-Keep Set as the specification defines it: the manifest's
\* critical_keep_list processes and services and the Knowledge Base keys
\* rated CRITICAL, all lower-cased.
CriticalKeepSet ==
    {LowerText(n) : n \in Range(manifest.critical_keep_list.processes)
                        \cup Range(manifest.critical_keep_list.services)}
    \cup {LowerText(e.name) : e \in {k \in Range(known_processes) :
                                        k.info.safety_rating = "CRITICAL"}}

\* A line of the rollback list is a label, a blank separator or a command.
RollbackLabels == {RollbackLabel(m.action, m.target) : m \in Mutations}
IsCommandLine(l) == l # "" /\ l \notin RollbackLabels
CommandLines(lines) == SelectSeq(lines, IsCommandLine)

\* The entries that can be undone, and their commands in recording order.
Reversible(c) == c.success /\ c.rollback_command # ""
ReversibleEntries == SelectSeq(changes, Reversible)
RecordedCommands == [i \in DOMAIN ReversibleEntries |-> ReversibleEntries[i].rollback_command]

\* The last call wrote the rollback script.
Emitted == lastOp \in {"save_rollback_script", "finalize"}

\* C1: a record of any kind whose lower-cased name is in the Critical-Keep Set
\* is classified is_suspect = FALSE with no reasons, whatever its other fields.
C1_CriticalKeepNeverSuspect ==
    \A i \in DOMAIN filtered :
        LowerText(given[i].name) \in CriticalKeepSet
            => /\ filtered[i].is_suspect = FALSE
               /\ filtered[i].suspect_reasons = <<>>

\* C1 witness: a process kept only through case folding of a manifest entry,
\* whose path matches a rule, whose memory and CPU exceed the thresholds and
\* whose signature is not Microsoft's, has been classified.
C1_Witness ==
    /\ kind = "process"
    /\ \E i \in DOMAIN filtered :
          /\ LowerText(given[i].name) \in CriticalKeepSet
          /\ given[i].name # LowerText(given[i].name)
          /\ given[i].exe_path = Some(SteamPath)
          /\ given[i].memory_percent > high_memory_threshold
          /\ given[i].cpu_percent > high_cpu_threshold
          /\ flag_non_microsoft
          /\ given[i].signature = Some(<<"Razer", "Inc.">>)

\* C2: with every record call completed, the rollback script lists exactly the
\* commands of the successful calls that had one, in the reverse of call order
\* (both the script a save would write now and the one last written).
C2_RollbackListReversed ==
    ~io_failed =>
        /\ CommandLines(RollbackScript(now, rollback_commands).lines)
              = Reverse(RecordedCommands)
        /\ Emitted => CommandLines(rollback_file[1].lines) = Reverse(RecordedCommands)

\* C2 witness: two successful calls with different commands, then the script.
C2_Witness ==
    /\ ~io_failed
    /\ Emitted
    /\ Len(RecordedCommands) = 2
    /\ RecordedCommands[1] # RecordedCommands[2]

\* C3: with every record call completed, the journal holds one rollback action
\* (label, command, separator) per entry with success = TRUE and a non-empty
\* rollback_command, and none for any other entry.
C3_OneActionPerReversibleEntry ==
    ~io_failed =>
        /\ Len(CommandLines(rollback_commands)) = Len(ReversibleEntries)
        /\ Len(rollback_commands) = 3 * Len(ReversibleEntries)

\* C3 witness: a failed entry with a command, a successful entry without one
\* and a successful entry with one have all been recorded.
C3_Witness ==
    /\ ~io_failed
    /\ \E i \in DOMAIN changes : ~changes[i].success /\ changes[i].rollback_command # ""
    /\ \E i \in DOMAIN changes : changes[i].success /\ changes[i].rollback_command = ""
    /\ \E i \in DOMAIN changes : Reversible(changes[i])

\* C4: for every record a filter_* method returns, is_suspect is TRUE exactly
\* when suspect_reasons is non-empty.
C4_SuspectIffReasons ==
    \A i \in DOMAIN filtered :
        filtered[i].is_suspect <=> filtered[i].suspect_reasons # <<>>

\* C4 witness: a task flagged with exactly one reason.
C4_Witness ==
    /\ kind = "task"
    /\ \E i \in DOMAIN filtered :
          filtered[i].is_suspect /\ Len(filtered[i].suspect_reasons) = 1

\* C5 (as claimed): in the script last written, every command line comes after
\* the label of its own change, with no other command in between.
C5_LabelPrecedesCommand ==
    (~io_failed /\ Emitted) =>
        LET lines == rollback_file[1].lines
            undone == Reverse(ReversibleEntries)
        IN  \A i \in DOMAIN lines :
                IsCommandLine(lines[i]) =>
                    LET k == Len(CommandLines(SubSeq(lines, 1, i)))
                    IN  \E j \in 1..(i - 1) :
                            /\ lines[j] = RollbackLabel(undone[k].action, undone[k].target)
                            /\ \A m \in (j + 1)..(i - 1) : ~IsCommandLine(lines[m])

\* C6 (as claimed): a finalize() right after a finalize() leaves the log file,
\* the lines of the rollback script and the structured change log as they were.
C6_SecondFinalizeAddsNothing ==
    [][(lastOp = "finalize" /\ lastOp' = "finalize" /\ now' # now)
          => /\ log_file' = log_file
             /\ rollback_file'[1].lines = rollback_file[1].lines
             /\ yaml_log' = yaml_log]_vars

\* C7: a finalize() with no record call since the previous finalize() returns
\* the summary the previous one returned.
C7_FinalizeSameSummary ==
    [][(finalized >= 1 /\ ~recorded_since /\ finalized' = finalized + 1)
          => ret' = final_summary]_vars

\* C7 witness: one change recorded, then finalize() twice.
C7_Witness ==
    /\ lastOp = "finalize"
    /\ finalized = 2
    /\ Len(changes) = 1
    /\ changes[1].timestamp = 1
    /\ ret = final_summary
    /\ ret[1].total_changes = 1

\* C8 (as claimed): once finalize() has been called, no record, dry-run or
\* message call changes the entries, the rollback list or the log file.
C8_ReadOnlyAfterFinalize ==
    [][(finalized >= 1 /\ now' # now
            /\ lastOp' \in {"log_change", "log_dry_run", "log_message"})
          => /\ changes' = changes
             /\ rollback_commands' = rollback_commands
             /\ log_file' = log_file]_vars

\* C9: every call leaves the entries it found as a prefix of the entries it
\* leaves behind.
C9_EntriesAppendOnly == [][IsPrefix(changes, changes')]_vars

\* C9 witness: two entries recorded, then the session finalized.
C9_Witness ==
    /\ Len(changes) = 2
    /\ lastOp = "finalize"

\* C10: a dry-run call changes neither the rollback list nor the entries, and
\* so none of the summary counts.
C10_DryRunFrame ==
    [][(lastOp' = "log_dry_run" /\ now' # now)
          => /\ rollback_commands' = rollback_commands
             /\ changes' = changes
             /\ get_summary(changes') = get_summary(changes)]_vars

\* C10 witness: a dry run after a change that queued a rollback command.
C10_Witness ==
    /\ lastOp = "log_dry_run"
    /\ rollback_commands # <<>>
    /\ Len(changes) >= 1

\* ---- vocabulary of the pattern claims
\* The text a record is searched in, per kind (the full_text of the four
\* _get_suspect_reasons_* methods).
SearchText(k, rec) ==
    CASE k = "process" -> rec.name \o Sp \o Fmt(rec.exe_path) \o Sp \o Fmt(rec.cmdline)
      [] k = "service" -> rec.name \o Sp \o Fmt(rec.display_name) \o Sp \o GetText(rec, "path")
      [] k = "startup" -> rec.name \o Sp \o Fmt(rec.command)
      [] k = "task" -> rec.name \o Sp \o Fmt(rec.path) \o Sp \o Fmt(rec.actions)

\* The text of the pattern reason that names a rule.
PatternReasonOf(p) == "Matches bloatware pattern: " \o p.pattern

\* A reason of the form "Matches bloatware pattern: ...", for any pattern of
\* the defaults or of the settings, compilable or not.
IsPatternReason(r) ==
    \E p \in Range(DEFAULT_PATTERNS \o settings.suspect_filter.bloatware_patterns) :
        r = PatternReasonOf(p)

PatternReasonsIn(reasons) == SelectSeq(reasons, IsPatternReason)

\* The rule catalogue as the specification defines it: the defaults, then the
\* operator-supplied patterns that compile, each group in its own order.
EffectiveCatalogue ==
    DEFAULT_PATTERNS \o SelectSeq(settings.suspect_filter.bloatware_patterns, IsValid)

\* The positions of the catalogue's rules that match the i-th record handed in.
MatchingRules(i) ==
    LET catalogue == EffectiveCatalogue
        text == SearchText(kind, given[i])
        low == LowerText(text)
    IN  {r \in DOMAIN catalogue : Search(catalogue[r], text, low)}

\* C13: the reasons of every classified record, of any kind, hold at most one
\* reason of the form "Matches bloatware pattern: ...", however many rules match.
C13_AtMostOnePatternReason ==
    \A i \in DOMAIN filtered : Len(PatternReasonsIn(filtered[i].suspect_reasons)) <= 1

\* C13 witness: a service whose search text matches three rules (chroma, razer
\* and steam) has been classified with its one pattern reason.
C13_Witness ==
    /\ kind = "service"
    /\ \E i \in DOMAIN filtered :
          /\ Cardinality(MatchingRules(i)) >= 3
          /\ Len(PatternReasonsIn(filtered[i].suspect_reasons)) = 1

\* C19: the catalogue in use is the defaults followed by the operator-supplied
\* patterns that compile, in insertion order; a pattern reason is reported
\* exactly for the records outside the Critical-Keep Set that match some rule,
\* and it names the earliest matching rule of that catalogue (for a flagged
\* record named Razer Chroma, the chroma rule and not the razer rule).
C19_CatalogueOrderFirstMatch ==
    /\ patterns = EffectiveCatalogue
    /\ \A i \in DOMAIN filtered :
          LET hits == MatchingRules(i)
              reported == PatternReasonsIn(filtered[i].suspect_reasons)
              catalogue == EffectiveCatalogue
          IN  IF hits = {} \/ LowerText(given[i].name) \in CriticalKeepSet
              THEN reported = <<>>
              ELSE \E r \in hits :
                      /\ \A q \in hits : r <= q
                      /\ reported = <<PatternReasonOf(catalogue[r])>>
    /\ \A i \in DOMAIN filtered :
          (given[i].name = <<"Razer", "Chroma">> /\ filtered[i].is_suspect)
              => filtered[i].suspect_reasons[1] = "Matches bloatware pattern: (?i)chroma"

\* C19 witness: with settings that supply an uncompilable pattern and the
\* notepad rule, a process named notepad run from a Steam path matches the
\* steam default and the operator's rule, and the steam default is reported.
C19_Witness ==
    /\ kind = "process"
    /\ settings = SettingsFile
    /\ Len(patterns) = Len(DEFAULT_PATTERNS) + 1
    /\ \E i \in DOMAIN filtered :
          /\ \E r \in MatchingRules(i) : r > Len(DEFAULT_PATTERNS)
          /\ \E r \in MatchingRules(i) : r <= Len(DEFAULT_PATTERNS)
          /\ filtered[i].suspect_reasons[1] = "Matches bloatware pattern: (?i)steam"

\* C18 (as claimed): a classified record has the fields of the record handed
\* in with the same values, plus is_suspect and suspect_reasons, and no other.
C18_OnlyTwoFieldsAdded ==
    \A i \in DOMAIN filtered :
        /\ DOMAIN filtered[i] = DOMAIN given[i] \cup {"is_suspect", "suspect_reasons"}
        /\ \A f \in DOMAIN given[i] : filtered[i][f] = given[i][f]

\* C18 (amended): a classified record has the fields of the record handed in
\* with the same values, plus is_suspect, suspect_reasons and known_info (the
\* Knowledge Base entry of its name, or None), and no other.
C18_OnlyThreeFieldsAdded ==
    \A i \in DOMAIN filtered :
        /\ DOMAIN filtered[i] =
              DOMAIN given[i] \cup {"is_suspect", "suspect_reasons", "known_info"}
        /\ \A f \in DOMAIN given[i] : filtered[i][f] = given[i][f]

\* C18 witness: a startup item whose name differs from its lower-cased form
\* and has a Knowledge Base entry has been classified.
C18_Witness ==
    /\ kind = "startup"
    /\ \E i \in DOMAIN filtered :
          /\ given[i].name # LowerText(given[i].name)
          /\ filtered[i].known_info # None

\* C16: a record call that does not get its entry into the log file raises to
\* its caller; a record call that returns normally has written the block of
\* the entry it recorded.
C16_WriteFailureSurfaced ==
    [][(lastOp' = "log_change" /\ now' # now)
          => /\ log_file' = log_file => raised'
             /\ ~raised' =>
                   LET e == changes'[Len(changes')]
                   IN  /\ Len(log_file') = Len(log_file) + 1
                       /\ log_file'[Len(log_file')].block = "change"
                       /\ log_file'[Len(log_file')].timestamp = e.timestamp
                       /\ log_file'[Len(log_file')].target = e.target]_vars

\* C16 witness: after one written entry, a record call failed on the log file
\* and raised.
C16_Witness ==
    /\ lastOp = "log_change"
    /\ raised
    /\ Len(changes) = 2
    /\ Len(log_file) = 2

\* ---- vocabulary of the resolver and aggregator claims
\* the least element of a non-empty set of positions
Least(S) == CHOOSE i \in S : \A j \in S : i <= j

\* The results research_all_suspects returned, each with the record it was
\* made for, in traversal order.
Resolved ==
    IF results = None THEN <<>>
    ELSE LET Pair(items, rs, key) ==
                 [i \in DOMAIN rs |->
                     [item |-> SelectSeq(items, IsSuspect)[i], result |-> rs[i], key |-> key]]
         IN  Pair(suspects.processes, results[1].processes, "processes")
             \o Pair(suspects.services, results[1].services, "services")
             \o Pair(suspects.startup_items, results[1].startup_items, "startup_items")
             \o Pair(suspects.tasks, results[1].tasks, "tasks")

\* The entries of the researcher's Knowledge Base, and the positions of those
\* whose key matches a record name in each of the three ways.
KnowledgeBase == researcher_kb.entries
ExactAt(item) == {i \in DOMAIN KnowledgeBase : KnowledgeBase[i].name = item.name}
FoldedAt(item) ==
    {i \in DOMAIN KnowledgeBase : LowerText(KnowledgeBase[i].name) = LowerText(item.name)}
SubstringAt(item) ==
    {i \in DOMAIN KnowledgeBase :
        \/ Contains(LowerText(item.name), LowerText(KnowledgeBase[i].name))
        \/ Contains(LowerText(KnowledgeBase[i].name), LowerText(item.name))}
HasAttached(item) == item.known_info # None

\* An entry is found for the record: attached, or matched in some way (an
\* exact or case-insensitive match is a substring match too).
EntryFound(item) == HasAttached(item) \/ SubstringAt(item) # {}

\* The entries the record's result can have been copied from.
EntriesFor(item) ==
    IF HasAttached(item) THEN {item.known_info[1]}
    ELSE {KnowledgeBase[i].info : i \in SubstringAt(item)}

CopiedFields == {"category", "publisher", "purpose", "recommendation", "safety_rating", "notes"}

\* Every one of the six fields that the entry holds is in the result as it is
\* in the entry.
CopiedVerbatim(result, info) ==
    \A f \in CopiedFields \cap DOMAIN info :
        IF f = "publisher" THEN result[f] = Some(info[f]) ELSE result[f] = info[f]

\* No keyword of the category table occurs in the record's name or path.
NoCategoryKeyword(item) ==
    \A i \in DOMAIN CategoryKeywords : \A kw \in CategoryKeywords[i].keywords :
        ~Occurs(kw, LowerText(item.name)) /\ ~Occurs(kw, GuessPath(item))

C15_UnknownNeedsResearch ==
    LET resolved == Resolved
    IN  \A i \in DOMAIN resolved :
            LET item == resolved[i].item
                result == resolved[i].result
            IN  (~EntryFound(item) \/ (researcher_kb = EmptyMapping /\ ~HasAttached(item))) =>
                    /\ result.source = "needs_research"
                    /\ result.recommendation = "REVIEW"
                    /\ result.safety_rating = "UNKNOWN"
                    /\ result.requires_further_research = TRUE
                    /\ NoCategoryKeyword(item) => result.category = "unknown"

\* C15 witness: with a Knowledge Base of three entries loaded, a service named
\* XClient with no path was resolved to category unknown, next to one that a
\* Steam path made gaming.
C15_Witness ==
    /\ researcher_kb.entries = ResearchKnownFile
    /\ \E i, j \in DOMAIN Resolved :
          /\ Resolved[i].key = "services"
          /\ Resolved[i].item.name = <<"XClient">>
          /\ NoCategoryKeyword(Resolved[i].item)
          /\ Resolved[i].result.category = "unknown"
          /\ Resolved[i].result.source = "needs_research"
          /\ ~NoCategoryKeyword(Resolved[j].item)
          /\ Resolved[j].result.category = "gaming"

\* C20: the entry a result is made from is the attached known_info if there is
\* one, else the entry of the exact key, else the first entry whose key equals
\* the name ignoring case, else the first entry whose key contains the name or
\* is contained in it; so no substring match is taken while an exact or
\* case-insensitive match exists, wherever it stands.
C20_LookupPrecedence ==
    LET resolved == Resolved
    IN  \A i \in DOMAIN resolved :
            LET item == resolved[i].item
                result == resolved[i].result
                exact == ExactAt(item)
                folded == FoldedAt(item)
                substring == SubstringAt(item)
                picked == IF HasAttached(item) THEN item.known_info[1]
                          ELSE IF exact # {} THEN KnowledgeBase[Least(exact)].info
                          ELSE IF folded # {} THEN KnowledgeBase[Least(folded)].info
                          ELSE KnowledgeBase[Least(substring)].info
            IN  (HasAttached(item) \/ substring # {}) =>
                    /\ CopiedVerbatim(result, picked)
                    /\ (~HasAttached(item) /\ folded # {}) =>
                          \A k \in substring \ folded :
                              result.purpose # KnowledgeBase[k].info.purpose

\* C20 witness: a process named Razer Chroma without known_info got the entry
\* of its exact key, the third, past a substring match (the first) and a
\* case-insensitive match (the second).
C20_Witness ==
    \E i \in DOMAIN Resolved :
        LET item == Resolved[i].item
        IN  /\ Resolved[i].key = "processes"
            /\ ~HasAttached(item)
            /\ ExactAt(item) = {3}
            /\ FoldedAt(item) = {2, 3}
            /\ SubstringAt(item) = {1, 2, 3}
            /\ Resolved[i].result.purpose = "Chroma SDK service"

\* ---- aggregation
\* the four keys of results in the order the dict was filled
KindRank(key) ==
    CASE key = "processes" -> 1 [] key = "services" -> 2
      [] key = "startup_items" -> 3 [] key = "tasks" -> 4

Aggregated == r_op = "generate_recommendations"

\* C11 (as claimed): every generate_recommendations call on the results of the
\* resolver returns, and every result is in exactly one of the buckets REMOVE,
\* DISABLE, KEEP, REVIEW, whose sizes add up to the number of results.
C11_AggregationTotal ==
    Aggregated =>
        /\ r_raised = ""
        /\ recommendations # None
        /\ DOMAIN recommendations[1] = {"REMOVE", "DISABLE", "KEEP", "REVIEW"}
        /\ Len(recommendations[1]["REMOVE"]) + Len(recommendations[1]["DISABLE"])
              + Len(recommendations[1]["KEEP"]) + Len(recommendations[1]["REVIEW"])
              = Len(Resolved)
        /\ \A i \in DOMAIN Resolved :
              Cardinality({k \in DOMAIN recommendations[1] :
                  \E j \in DOMAIN recommendations[1][k] :
                      /\ recommendations[1][k][j].name = Resolved[i].result.name
                      /\ recommendations[1][k][j].type = Resolved[i].key
                      /\ recommendations[1][k][j].purpose = Resolved[i].result.purpose}) = 1

\* C12: when generate_recommendations returns, each bucket holds the results
\* with its recommendation in traversal order: processes before services
\* before startup_items before tasks, and within a kind as they were given.
C12_BucketsKeepTraversalOrder ==
    (Aggregated /\ recommendations # None) =>
        \A k \in DOMAIN recommendations[1] :
            LET Recommends(p) == p.result.recommendation = k
                resolved == Resolved
                expected == SelectSeq(resolved, Recommends)
                bucket == recommendations[1][k]
            IN  /\ bucket = [i \in DOMAIN expected |->
                                [name |-> expected[i].result.name, type |-> expected[i].key,
                                 category |-> expected[i].result.category,
                                 purpose |-> expected[i].result.purpose,
                                 safety_rating |-> expected[i].result.safety_rating]]
                /\ \A i, j \in DOMAIN bucket :
                      i < j => KindRank(bucket[i].type) <= KindRank(bucket[j].type)

\* C12 witness: the REVIEW bucket holds two services in the order given, the
\* one guessed gaming before the one guessed unknown.
C12_Witness ==
    /\ Aggregated
    /\ recommendations # None
    /\ Len(recommendations[1]["REVIEW"]) = 2
    /\ recommendations[1]["REVIEW"][1].type = "services"
    /\ recommendations[1]["REVIEW"][2].type = "services"
    /\ recommendations[1]["REVIEW"][1].category = "gaming"
    /\ recommendations[1]["REVIEW"][2].category = "unknown"

\* ---- loading
\* the sources that are missing or malformed
DegradedSources == KbSources \ {"mapping"}

\* C17 (as claimed): with a Knowledge Base source that is missing or malformed,
\* SuspectFilter() and AIResearcher() complete with an empty mapping as
\* Knowledge Base, and resolution then completes.
C17_TolerantLoading ==
    kb_source \in DegradedSources =>
        /\ classifier # "failed"
        /\ classifier = "ready" => known_processes = <<>>
        /\ researcher = "ready" => researcher_kb = EmptyMapping
        /\ r_raised = ""

\* ---- the guessed category
\* The buckets in the order the specification gives them, and the keywords of
\* a bucket.
BucketOrder ==
    <<"updater", "rgb_software", "ai_feature", "telemetry", "gaming", "driver", "security">>
KeywordsOf(bucket) ==
    UNION {CategoryKeywords[i].keywords :
              i \in {j \in DOMAIN CategoryKeywords : CategoryKeywords[j].category = bucket}}

\* The positions in BucketOrder of the buckets with a keyword that occurs in
\* the record's lower-cased name or path.
BucketsHit(item) ==
    {k \in DOMAIN BucketOrder :
        \E kw \in KeywordsOf(BucketOrder[k]) :
            Occurs(kw, LowerText(item.name)) \/ Occurs(kw, GuessPath(item))}

\* C21: the category of every result made without an entry is the first bucket,
\* in the order updater, rgb_software, ai_feature, telemetry, gaming, driver,
\* security, that has a keyword occurring in the lower-cased name or path, and
\* it is unknown exactly when no bucket has one.
C21_FirstBucketWins ==
    LET resolved == Resolved
    IN  \A i \in DOMAIN resolved :
            LET hit == BucketsHit(resolved[i].item)
                category == resolved[i].result.category
            IN  resolved[i].result.source = "needs_research" =>
                    /\ hit # {} => category = BucketOrder[Least(hit)]
                    /\ category = "unknown" <=> hit = {}

\* C21 witness: a startup item whose command holds a gaming keyword and, after
\* it, an rgb_software keyword was resolved without an entry as rgb_software.
C21_Witness ==
    \E i \in DOMAIN Resolved :
        /\ Resolved[i].key = "startup_items"
        /\ Resolved[i].result.source = "needs_research"
        /\ BucketsHit(Resolved[i].item) = {2, 5}
        /\ Resolved[i].result.category = "rgb_software"

\* ---- vocabulary of the reason claims
\* The reasons that report a resource percentage, and the thresholds as the
\* specification defines them: the configured value, else 2 and 5 percent.
MemoryReasonOf(v) == "High memory usage: " \o ToString(v) \o "%"
CpuReasonOf(v) == "High CPU usage: " \o ToString(v) \o "%"
Percentages == 0..100
IsMemoryReason(r) == \E v \in Percentages : r = MemoryReasonOf(v)
IsCpuReason(r) == \E v \in Percentages : r = CpuReasonOf(v)
MemoryThreshold ==
    IF settings.suspect_filter.high_memory_threshold_percent = None THEN 2
    ELSE settings.suspect_filter.high_memory_threshold_percent[1]
CpuThreshold ==
    IF settings.suspect_filter.high_cpu_threshold_percent = None THEN 5
    ELSE settings.suspect_filter.high_cpu_threshold_percent[1]

\* The i-th record handed in is outside the Critical-Keep Set.
NotKept(i) == LowerText(given[i].name) \notin CriticalKeepSet

\* C22: a process outside the Critical-Keep Set has a memory reason, naming
\* its percentage, exactly when memory_percent is above the memory threshold,
\* and a CPU reason exactly when cpu_percent is above the CPU threshold (not
\* at it); a service, startup item or task has neither.
C22_ThresholdsStrict ==
    \A i \in DOMAIN filtered :
        LET reasons == filtered[i].suspect_reasons
            memory == SelectSeq(reasons, IsMemoryReason)
            cpu == SelectSeq(reasons, IsCpuReason)
        IN  IF kind = "process"
            THEN NotKept(i) =>
                    /\ memory = IF given[i].memory_percent > MemoryThreshold
                                THEN <<MemoryReasonOf(given[i].memory_percent)>> ELSE <<>>
                    /\ cpu = IF given[i].cpu_percent > CpuThreshold
                             THEN <<CpuReasonOf(given[i].cpu_percent)>> ELSE <<>>
            ELSE memory = <<>> /\ cpu = <<>>

\* C22 witness: with a configured memory threshold of 3 percent and the
\* default CPU threshold, a process at 3 percent memory and 6 percent CPU was
\* classified with a CPU reason and no memory reason.
C22_Witness ==
    /\ kind = "process"
    /\ settings = SettingsFile
    /\ \E i \in DOMAIN filtered :
          /\ NotKept(i)
          /\ given[i].memory_percent = MemoryThreshold
          /\ given[i].cpu_percent > CpuThreshold
          /\ SelectSeq(filtered[i].suspect_reasons, IsMemoryReason) = <<>>
          /\ SelectSeq(filtered[i].suspect_reasons, IsCpuReason) # <<>>

\* ---- provenance of a process
\* The two provenance reasons, and what the specification calls signature
\* flagging (flag_non_microsoft, enabled unless configured off).
NonMicrosoftReasonOf(sig) == "Non-Microsoft signed: " \o Str(sig)
UnsignedReason == "Unsigned or signature not found"
SignatureFlagging == settings.suspect_filter.flag_non_microsoft # Some(FALSE)
HasSignature(rec) == rec.signature # None /\ rec.signature[1] # <<>>
SignedByMicrosoft(rec) == HasSignature(rec) /\ Occurs("Microsoft", rec.signature[1])
HasNonMicrosoftReason(i) ==
    HasSignature(given[i])
        /\ NonMicrosoftReasonOf(given[i].signature[1]) \in Range(filtered[i].suspect_reasons)
HasUnsignedReason(i) == UnsignedReason \in Range(filtered[i].suspect_reasons)

\* C23 (as claimed): for a process outside the Critical-Keep Set, a signature
\* without "Microsoft" gets the non-Microsoft-signed reason when signature
\* flagging is enabled; no signature at all with an executable path gets the
\* unsigned reason; never both; a Microsoft signature gets neither.
C23_ProvenanceUnsignedAlways ==
    kind = "process" =>
        \A i \in DOMAIN filtered :
            NotKept(i) =>
                /\ (SignatureFlagging /\ HasSignature(given[i]) /\ ~SignedByMicrosoft(given[i]))
                      => HasNonMicrosoftReason(i)
                /\ (given[i].signature = None /\ Truthy(given[i].exe_path))
                      => HasUnsignedReason(i)
                /\ ~(HasNonMicrosoftReason(i) /\ HasUnsignedReason(i))
                /\ SignedByMicrosoft(given[i])
                      => ~HasNonMicrosoftReason(i) /\ ~HasUnsignedReason(i)

\* C23 (amended): for a process outside the Critical-Keep Set, the
\* non-Microsoft-signed reason is present exactly when signature flagging is
\* enabled and a signature exists that does not contain "Microsoft", and the
\* unsigned reason exactly when signature flagging is enabled, no signature
\* was found at all and an executable path exists; so never both, neither for
\* a Microsoft signature, and neither with signature flagging disabled.
C23_ProvenanceWhenFlagging ==
    kind = "process" =>
        \A i \in DOMAIN filtered :
            NotKept(i) =>
                /\ HasNonMicrosoftReason(i) <=>
                      (SignatureFlagging /\ HasSignature(given[i])
                          /\ ~SignedByMicrosoft(given[i]))
                /\ HasUnsignedReason(i) <=>
                      (SignatureFlagging /\ given[i].signature = None
                          /\ Truthy(given[i].exe_path))
                /\ ~(HasNonMicrosoftReason(i) /\ HasUnsignedReason(i))
                /\ SignedByMicrosoft(given[i])
                      => ~HasNonMicrosoftReason(i) /\ ~HasUnsignedReason(i)

\* C23 witness: with signature flagging enabled, a process with an executable
\* path and no signature was classified with the unsigned reason.
C23_Witness ==
    /\ kind = "process"
    /\ SignatureFlagging
    /\ \E i \in DOMAIN filtered :
          /\ NotKept(i)
          /\ given[i].signature = None
          /\ given[i].exe_path # None
          /\ HasUnsignedReason(i)

\* ---- services
\* The two service reasons, and the conditions the specification names: a
\* service is Microsoft-attributed when the collector marked it so, starts
\* automatically when Win32_Service reports the start mode Auto, and is
\* currently running when its state is that of a running service (Running in
\* Win32_Service, 4 in the output of sc query).
AutoStartReason == "Third-party service set to Auto start"
RunningReason == "Third-party service currently running"
MicrosoftAttributed(rec) == "is_microsoft" \in DOMAIN rec /\ rec.is_microsoft
AutomaticStart(rec) == "start_mode" \in DOMAIN rec /\ rec.start_mode = "Auto"
CurrentlyRunning(rec) == rec.state \in {"Running", "4"}

\* What the claim says of the i-th service handed in.
ServiceReasonsAsClaimed(i) ==
    LET reasons == Range(filtered[i].suspect_reasons)
    IN  /\ (~MicrosoftAttributed(given[i]) /\ AutomaticStart(given[i]))
              => AutoStartReason \in reasons
        /\ (~MicrosoftAttributed(given[i]) /\ CurrentlyRunning(given[i]))
              => RunningReason \in reasons
        /\ MicrosoftAttributed(given[i])
              => AutoStartReason \notin reasons /\ RunningReason \notin reasons

\* C24 (as claimed): a service outside the Critical-Keep Set that is not
\* Microsoft-attributed gets the auto-start reason if its start mode is
\* Automatic and the running reason if it is currently running (both when
\* both apply); a Microsoft-attributed service gets neither.
C24_ServiceReasons ==
    kind = "service" =>
        \A i \in DOMAIN filtered : NotKept(i) => ServiceReasonsAsClaimed(i)

\* The same for the records built from Win32_Service only; it holds.
ServiceReasonsOfWmiRecords ==
    kind = "service" =>
        \A i \in DOMAIN filtered :
            (NotKept(i) /\ given[i] \in WmiServiceRecords) => ServiceReasonsAsClaimed(i)

\* C24 witness: a running service collected by the fallback was classified
\* without the running reason, and is not suspect.
C24_Witness ==
    /\ kind = "service"
    /\ \E i \in DOMAIN filtered :
          /\ NotKept(i)
          /\ given[i] \in FallbackServiceRecords
          /\ CurrentlyRunning(given[i])
          /\ ~filtered[i].is_suspect

\* ---- startup items
\* The generic reason, and an enabled item: one the collector did not mark
\* disabled (an item without the mark counts as enabled).
EnabledReason == "Enabled startup item"
IsEnabled(rec) == rec.enabled # Some(FALSE)

\* C25: a startup item outside the Critical-Keep Set has the enabled-item
\* reason exactly when it is enabled; so every enabled item is suspect, also
\* when no rule matches it, and a disabled item is suspect exactly when a rule
\* matches it.
C25_EnabledStartupFlagged ==
    kind = "startup" =>
        \A i \in DOMAIN filtered :
            NotKept(i) =>
                /\ EnabledReason \in Range(filtered[i].suspect_reasons) <=> IsEnabled(given[i])
                /\ IsEnabled(given[i]) => filtered[i].is_suspect
                /\ ~IsEnabled(given[i]) =>
                      (filtered[i].is_suspect <=> MatchingRules(i) # {})

\* C25 witness: an enabled startup item that no rule matches was classified
\* as suspect for being enabled alone.
C25_Witness ==
    /\ kind = "startup"
    /\ \E i \in DOMAIN filtered :
          /\ NotKept(i)
          /\ given[i].enabled = Some(TRUE)
          /\ MatchingRules(i) = {}
          /\ filtered[i].is_suspect
          /\ filtered[i].suspect_reasons = <<EnabledReason>>

\* ---- the order of the reasons
\* The reasons after the pattern reason that the i-th record is due, by kind,
\* in evaluation order (for a service: of a record built from Win32_Service).
LogonReason == "Third-party task runs at logon/boot"
ReadyReason == "Third-party task is enabled"
LaterReasons(i) ==
    LET rec == given[i]
        When(cond, reason) == IF cond THEN <<reason>> ELSE <<>>
    IN  CASE kind = "process" ->
                When(rec.memory_percent > MemoryThreshold, MemoryReasonOf(rec.memory_percent))
                \o When(rec.cpu_percent > CpuThreshold, CpuReasonOf(rec.cpu_percent))
                \o (IF SignatureFlagging /\ HasSignature(rec) /\ ~SignedByMicrosoft(rec)
                    THEN <<NonMicrosoftReasonOf(rec.signature[1])>>
                    ELSE When(SignatureFlagging /\ rec.signature = None
                                  /\ Truthy(rec.exe_path), UnsignedReason))
          [] kind = "service" ->
                When(~rec.is_microsoft /\ rec.start_mode = "Auto", AutoStartReason)
                \o When(~rec.is_microsoft /\ rec.state = "Running", RunningReason)
          [] kind = "startup" -> When(IsEnabled(rec), EnabledReason)
          [] kind = "task" ->
                When(~rec.is_microsoft /\ rec.runs_at_logon, LogonReason)
                \o When(~rec.is_microsoft /\ rec.state = "Ready", ReadyReason)

\* C26: the reasons of a record outside the Critical-Keep Set are the pattern
\* reason, if a rule matches, followed by every later reason the record is
\* due, each once and in evaluation order (for a process: memory, CPU,
\* provenance); a pattern reason is never anywhere but first, and a matching
\* rule takes no later reason away.
C26_ReasonsInEvaluationOrder ==
    \A i \in DOMAIN filtered :
        LET reasons == filtered[i].suspect_reasons
            hits == MatchingRules(i)
            catalogue == EffectiveCatalogue
            pattern == IF hits = {} THEN <<>>
                       ELSE <<PatternReasonOf(catalogue[Least(hits)])>>
        IN  NotKept(i) =>
                /\ \A j \in DOMAIN reasons : IsPatternReason(reasons[j]) => j = 1
                /\ hits # {} => (reasons # <<>> /\ IsPatternReason(reasons[1]))
                /\ given[i] \notin FallbackServiceRecords
                      => reasons = pattern \o LaterReasons(i)

\* C26 witness: a process that a rule matches, above both thresholds and
\* signed by another publisher, was classified with its four reasons.
C26_Witness ==
    /\ kind = "process"
    /\ \E i \in DOMAIN filtered :
          LET reasons == filtered[i].suspect_reasons
          IN  /\ Len(reasons) = 4
              /\ IsPatternReason(reasons[1])
              /\ IsMemoryReason(reasons[2])
              /\ IsCpuReason(reasons[3])
              /\ reasons[4] = NonMicrosoftReasonOf(<<"Razer", "Inc.">>)

\* ---- concurrent writers
\* The lines the rollback list is due: label, command and separator of every
\* reversible entry, in entry order.
RecordedLines ==
    LET entries == ReversibleEntries
    IN  [k \in 1..(3 * Len(entries)) |->
            LET e == entries[(k + 2) \div 3]
            IN  CASE k % 3 = 1 -> RollbackLabel(e.action, e.target)
                  [] k % 3 = 2 -> e.rollback_command
                  [] OTHER -> ""]

\* no thread is inside log_change
Quiescent == \A w \in Writers : pc[w] = "idle"

\* The rollback list agrees with the entries: its lines are those due, in
\* entry order, up to the lines a call in progress has still to append; and
\* once every call has returned, its reversal undoes the entries last first.
InEntryOrder ==
    /\ IsPrefix(rollback_commands, RecordedLines)
    /\ Quiescent =>
          /\ rollback_commands = RecordedLines
          /\ CommandLines(Reverse(rollback_commands)) = Reverse(RecordedCommands)

\* C27: the rollback list departs from the order of the entries only when the
\* threads calling log_change are not serialized (with serialized calls every
\* label is followed by its command and the commands are in entry order);
\* without serialization it does depart.
C27_OutOfOrderOnlyUnserialized == ~InEntryOrder => discipline = "free"

\* C27 witness: two threads recorded without serialization, both calls have
\* returned, and the two commands stand in the rollback list in the opposite
\* order of their entries, so that the reversed list undoes the first first.
C27_Witness ==
    /\ discipline = "free"
    /\ Quiescent
    /\ Len(RecordedCommands) = 2
    /\ RecordedCommands[1] # RecordedCommands[2]
    /\ CommandLines(rollback_commands) = Reverse(RecordedCommands)
    /\ CommandLines(Reverse(rollback_commands)) = RecordedCommands

\* ---- who is researched
\* The four kinds: the key of the list and the item_type of its results.
ResultKeys == {"processes", "services", "startup_items", "tasks"}
TypeOfKey(key) ==
    CASE key = "processes" -> "process" [] key = "services" -> "service"
      [] key = "startup_items" -> "startup" [] key = "tasks" -> "task"

\* The records of a list that the classifier flagged, in list order.
FlaggedOf(key) ==
    LET Flagged(rec) == rec.is_suspect = TRUE
    IN  SelectSeq(suspects[key], Flagged)

\* C28: when research_all_suspects returns, the results of each kind are one
\* per record of that kind with is_suspect = TRUE, in the order of the list
\* handed in, and none for any other record; so a record that is not suspect
\* (as every record of the Critical-Keep Set is) is in no result list and in
\* no recommendation bucket.
C28_ExactlyTheSuspects ==
    results # None =>
        /\ \A key \in ResultKeys :
              LET flagged == FlaggedOf(key)
                  rs == results[1][key]
              IN  /\ Len(rs) = Len(flagged)
                  /\ \A i \in DOMAIN rs :
                        /\ rs[i].name = flagged[i].name
                        /\ rs[i].type = TypeOfKey(key)
                        /\ rs[i].suspect_reasons = flagged[i].suspect_reasons
                  /\ \A j \in DOMAIN suspects[key] :
                        ~suspects[key][j].is_suspect =>
                            \A i \in DOMAIN rs : rs[i].name # suspects[key][j].name
        /\ recommendations # None =>
              \A k \in DOMAIN recommendations[1] : \A j \in DOMAIN recommendations[1][k] :
                  \E key \in ResultKeys : \E i \in DOMAIN FlaggedOf(key) :
                      /\ recommendations[1][k][j].type = key
                      /\ recommendations[1][k][j].name = FlaggedOf(key)[i].name

\* C28 witness: of two tasks handed in, the first not suspect and the second
\* suspect, only the second was resolved, and it is the only recommendation.
C28_Witness ==
    /\ Aggregated
    /\ recommendations # None
    /\ Len(suspects.tasks) = 2
    /\ ~suspects.tasks[1].is_suspect
    /\ suspects.tasks[2].is_suspect
    /\ Len(results[1].tasks) = 1
    /\ results[1].tasks[1].name = suspects.tasks[2].name
    /\ Len(recommendations[1]["REMOVE"]) + Len(recommendations[1]["DISABLE"])
          + Len(recommendations[1]["KEEP"]) + Len(recommendations[1]["REVIEW"]) = 1

\* ---- failure of a record call
\* C29 (as claimed): a record call that raises because the log file cannot be
\* written leaves the entries and the rollback list as they were before it.
C29_FailedRecordLeavesJournal ==
    [][(lastOp' = "log_change" /\ now' # now /\ raised')
          => /\ changes' = changes
             /\ rollback_commands' = rollback_commands]_vars

\* C29 witness: the only record call of the session raised, and its change,
\* reported as succeeded with a rollback command, is among the entries and in
\* the summary counts while the rollback list is empty.
C29_Witness ==
    /\ lastOp = "log_change"
    /\ raised
    /\ Len(changes) = 1
    /\ Reversible(changes[1])
    /\ rollback_commands = <<>>
    /\ get_summary(changes).successful = 1
    /\ Len(log_file) = 1

\* ---- classifier and resolver on one Knowledge Base
\* The record as it was before classification attached known_info to it.
WithoutKnownInfo(item) == [f \in DOMAIN item \ {"known_info"} |-> item[f]]

\* main() has run the classifier and the resolver on the same file.
Analyzed == r_op = "main"

\* C30: when the classifier and the resolver have loaded the same Knowledge
\* Base, the result of every classified record (with the known_info the
\* classifier attached, or None) is the result research_item gives for the
\* same record without known_info: the same entry, or the same needs_research
\* outcome.
C30_KnownInfoChangesNothing ==
    Analyzed =>
        LET resolved == Resolved
        IN  \A i \in DOMAIN resolved :
                resolved[i].result =
                    research_item(KnowledgeBase, WithoutKnownInfo(resolved[i].item),
                                  TypeOfKey(resolved[i].key))

\* C30 witness: with a Knowledge Base of three entries, a process whose entry
\* the classifier attached through a case-insensitive match and a process it
\* found no entry for, which the resolver matched as a substring, were both
\* resolved from the Knowledge Base.
C30_Witness ==
    /\ Analyzed
    /\ KnowledgeBase = ResearchKnownFile
    /\ \E i, j \in DOMAIN Resolved :
          /\ Resolved[i].key = "processes"
          /\ Resolved[i].item.known_info # None
          /\ ExactAt(Resolved[i].item) = {}
          /\ Resolved[i].result.purpose = "lighting control"
          /\ Resolved[j].item.known_info = None
          /\ Resolved[j].result.source = "known_processes_database"
          /\ Resolved[j].result.purpose = "device companion"

====
